---- MODULE Spec2Model ----
(***************************************************************************)
(* The adaptive bypass resolution engine of Nova-adlink-bypasser-bot:      *)
(* IntelligentBypassSystem.bypass (services/intelligent_bypasser.py), the  *)
(* link cache of FirebaseDB (database/firebase.py), the pattern store of   *)
(* AIBypassAgent (services/ai_learning/ai_agent.py) and the outcomes of    *)
(* the BypassEngine methods (services/bypass.py); and, around it, the      *)
(* daily limit of the chat handlers (handlers/bypass.py,                   *)
(* middlewares/rate_limit.py) and the redemption of access tokens.         *)
(*                                                                         *)
(* A bypass call is a sequence of atomic steps. Spec makes the calls one    *)
(* after another with stores that answer; SpecOutage lets every store      *)
(* operation raise; SpecConcurrent runs the calls at the same time on the  *)
(* one IntelligentBypassSystem object, as the /api/bypass view does, which *)
(* runs each request in its own server thread.                             *)
(* Python's None is the empty sequence <<>>, a value v is <<v>>; a         *)
(* Firestore collection is a function from document ids to documents, and  *)
(* a document that does not exist is an id outside its DOMAIN.             *)
(***************************************************************************)
EXTENDS Integers, Sequences, FiniteSets, TLC

(* ------------------------------ bounds -------------------------------- *)

\* bypass calls made in one behaviour
MaxCalls == 2

\* requests that the server handles at the same time, each in its own thread
MaxThreads == 3

\* hours that one step of the clock adds, and the last hour the clock reaches
TickHours == 12
MaxNow == 24

\* the longest chain of redirects that a site serves, and the most matches
\* that the patterns of a method find in a page
MaxChain == 11

\* the methods of one call that raise into the loop of step 3
MaxRaises == 1
MaxLinks == 2

(* ----------------------- configuration, inputs ------------------------ *)

CACHE_EXPIRY_HOURS == 24

FREE_USER_DAILY_LIMIT == 10

\* two users, neither an admin, and the access token that an admin created;
\* the token expires after twelve hours
UserIds == {7, 8}
AccessToken == "NOVA-PREMIUM-1"
TokenExpiresAt == 12

\* a URL is its host labels and its path
U1 == [netloc |-> <<"www", "short", "io">>, path |-> "/a"]
U2 == [netloc |-> <<"short", "io">>, path |-> "/b"]
U3 == [netloc |-> <<"gate", "net">>, path |-> "/a"]
URLs == {U1, U2, U3}

\* a destination that a page can carry
T1 == [netloc |-> <<"cdn", "files", "org">>, path |-> "/file.zip"]

\* the destination that the page carries once the site has moved the file
T2 == [netloc |-> <<"cdn2", "files", "org">>, path |-> "/file.zip"]

\* what the site of a URL serves while one call runs: nothing (every fetch
\* raises), a plain page with nothing to extract, a page with a download
\* anchor, a page with the link in an inline script, or a redirect to the
\* destination. A site can also have moved its file ("mirror": the download
\* anchor carries the other destination); the calls that run at the same
\* time meet such a site. A site can load its link from an API endpoint that
\* a script of the page names ("api"): method_dynamic requests the endpoint
\* and returns the link of its JSON answer.
Sites == {"down", "plain", "anchor", "script", "redirect"}

Calls == 1..MaxCalls

Threads == 1..MaxThreads

None == <<>>
Some(v) == <<v>>

Merge(r, s) ==
    [f \in (DOMAIN r) \cup (DOMAIN s) |-> IF f \in DOMAIN s THEN s[f] ELSE r[f]]

Remove(store, key) == [k \in (DOMAIN store) \ {key} |-> store[k]]

Put(store, key, doc) ==
    [k \in (DOMAIN store) \cup {key} |-> IF k = key THEN doc ELSE store[k]]

EmptyStore == [k \in {} |-> None]

\* dict.get(field, default)
Get(doc, field, default) == IF field \in DOMAIN doc THEN doc[field] ELSE default

(* --------------------------- BypassEngine ----------------------------- *)

\* the list with redirect_chain moved to the front
methods_reordered ==
    << [tag |-> "redirect_chain",     func |-> "method_redirect"],
       [tag |-> "html_form",          func |-> "method_html_form"],
       [tag |-> "css_hidden",         func |-> "method_css_hidden"],
       [tag |-> "javascript",         func |-> "method_javascript"],
       [tag |-> "countdown_timer",    func |-> "method_countdown"],
       [tag |-> "dynamic_content",    func |-> "method_dynamic"],
       [tag |-> "cloudflare",         func |-> "method_cloudflare"],
       [tag |-> "base64_decode",      func |-> "method_base64"],
       [tag |-> "url_decode",         func |-> "method_url_decode"],
       [tag |-> "browser_automation", func |-> "method_browser_auto"] >>

\* the ten (tag, engine method) pairs in priority order
methods ==
    << [tag |-> "html_form",          func |-> "method_html_form"],
       [tag |-> "css_hidden",         func |-> "method_css_hidden"],
       [tag |-> "javascript",         func |-> "method_javascript"],
       [tag |-> "countdown_timer",    func |-> "method_countdown"],
       [tag |-> "dynamic_content",    func |-> "method_dynamic"],
       [tag |-> "cloudflare",         func |-> "method_cloudflare"],
       [tag |-> "redirect_chain",     func |-> "method_redirect"],
       [tag |-> "base64_decode",      func |-> "method_base64"],
       [tag |-> "url_decode",         func |-> "method_url_decode"],
       [tag |-> "browser_automation", func |-> "method_browser_auto"] >>

NumMethods == Len(methods)

\* the coroutine methods that BypassEngine defines
EngineMethods == {methods[i].func : i \in 1..NumMethods}

\* getattr(self.bypass_engine, method_name, None): the engine method of that
\* name, or None when the engine has no such attribute
GetEngineAttr(method_name) ==
    IF method_name \in EngineMethods THEN Some(method_name) ELSE None

\* await method(url) on a site. Every engine method catches its own
\* exceptions and returns None. method_html_form returns the href of a
\* download anchor; method_javascript the link of an inline script;
\* method_redirect the URL it ends on, which is the input URL itself when the
\* first response is no redirect; method_browser_auto is a placeholder that
\* returns None.
EngineCall(func, url, site) ==
    CASE site = "down" -> None
      [] site = "anchor" /\ func = "method_html_form" -> Some(T1)
      [] site = "mirror" /\ func = "method_html_form" -> Some(T2)
      [] site = "script" /\ func = "method_javascript" -> Some(T1)
      [] site = "api" /\ func = "method_dynamic" -> Some(T1)
      [] site = "redirect" /\ func = "method_redirect" -> Some(T1)
      [] site # "redirect" /\ func = "method_redirect" -> Some(url)
      [] OTHER -> None

\* the engine methods that suspend: method_cloudflare fetches with the
\* blocking cloudscraper client and method_browser_auto awaits nothing
Suspends(func) == func \notin {"method_cloudflare", "method_browser_auto"}

\* a cancellation that arrives while method_dynamic awaits the answer of the
\* API endpoint is caught by the bare except around that request, and the
\* method goes on; every other handler is an except Exception, which lets
\* the cancellation through
SwallowsCancel(func, site) == func = "method_dynamic" /\ site = "api"

(* ------------------------------ URL keys ------------------------------ *)

\* urlparse(url).netloc.replace('www.', '')
_extract_domain(url) ==
    LET n == Len(url.netloc)
        IsNotWww(l) == l # "www"
    IN  SelectSeq(SubSeq(url.netloc, 1, n - 1), IsNotWww) \o <<url.netloc[n]>>

\* hash(str) is salted per process (PYTHONHASHSEED): the value of a URL under
\* each of two salts. The values and the modulus are scaled to the 32-bit
\* integers of the model checker: the source reduces modulo 10 ** 10.
HashSeeds == {0, 1}

PyHash(seed, url) ==
    IF seed = 0
    THEN (CASE url = U1 -> -7
            [] url = U2 -> 12
            [] OTHER    -> 2000000007)
    ELSE (CASE url = U1 -> 5
            [] url = U2 -> -9
            [] OTHER    -> 31)

Abs(n) == IF n < 0 THEN -n ELSE n

DocIdModulus == 1000000000

\* doc_id = abs(hash(original_url)) % (10 ** 10)
CacheDocId(seed, original_url) == Abs(PyHash(seed, original_url)) % DocIdModulus

(* ------------------------------- state -------------------------------- *)

VARIABLES
    total_attempts,         \* IntelligentBypassSystem counters
    successful_bypasses,
    ai_assisted_bypasses,
    cache_hits,
    ai_available,           \* AIBypassAgent._is_available()
    total_analyses,         \* AIBypassAgent counters
    successful_generations,
    learned_patterns,       \* AIBypassAgent.learned_patterns (in memory)
    bypass_cache,           \* Firestore collection Config.CACHE_COLLECTION
    patterns,               \* Firestore collection 'learned_patterns'
    hash_seed,              \* the hash salt of this process
    users,                  \* Firestore collection Config.USERS_COLLECTION
    access_tokens,          \* Firestore collection Config.TOKENS_COLLECTION
    now,                    \* datetime.utcnow(), in hours
    call,                   \* each bypass call: its position and locals
    hist                    \* each bypass call: what it did and returned

counters == <<total_attempts, successful_bypasses, ai_assisted_bypasses, cache_hits>>
agent == <<ai_available, total_analyses, successful_generations>>
accounts == <<users, access_tokens>>
vars == <<counters, agent, learned_patterns, bypass_cache, patterns, hash_seed,
          accounts, now, call, hist>>

(* ------------------------- FirebaseDB: cache --------------------------- *)

\* an entry still served at the hour it expires
CacheFreshAtExpiry(created_at, t) == t <= created_at + CACHE_EXPIRY_HOURS

\* datetime.utcnow() < created_at + timedelta(hours=Config.CACHE_EXPIRY_HOURS)
CacheFresh(created_at, t) == t < created_at + CACHE_EXPIRY_HOURS

\* a get_cached_bypass that serves a hit without counting it
get_cached_bypass_uncounted(original_url, fault) ==
    LET doc_id == CacheDocId(hash_seed, original_url)
        miss == [ret |-> None, cache |-> bypass_cache]
    IN  IF fault = "read" \/ doc_id \notin DOMAIN bypass_cache THEN miss
        ELSE LET cache_data == bypass_cache[doc_id] IN
             IF CacheFresh(cache_data.created_at, now)
             THEN IF fault = "write" THEN miss
                  ELSE [ret |-> Some(cache_data.bypassed_url), cache |-> bypass_cache]
             ELSE IF fault = "write" THEN miss
                  ELSE [ret |-> None, cache |-> Remove(bypass_cache, doc_id)]

\* get_cached_bypass: the cached URL or None, and the collection afterwards.
\* fault: "read" when the document read raises, "write" when the hit_count
\* update or the delete raises; either is caught and None is returned.
get_cached_bypass(original_url, fault) ==
    LET doc_id == CacheDocId(hash_seed, original_url)
        miss == [ret |-> None, cache |-> bypass_cache]
    IN  IF fault = "read" \/ doc_id \notin DOMAIN bypass_cache THEN miss
        ELSE LET cache_data == bypass_cache[doc_id] IN
             IF CacheFresh(cache_data.created_at, now)
             THEN IF fault = "write" THEN miss
                  ELSE [ret |-> Some(cache_data.bypassed_url),
                        cache |-> [bypass_cache EXCEPT ![doc_id].hit_count = @ + 1]]
             ELSE IF fault = "write" THEN miss
                  ELSE [ret |-> None, cache |-> Remove(bypass_cache, doc_id)]

\* a write that leaves the document alone when the URL already has one
cache_bypass_keep_first(cache, original_url, bypassed_url, fault) ==
    IF fault # "ok" \/ CacheDocId(hash_seed, original_url) \in DOMAIN cache THEN cache
    ELSE Put(cache, CacheDocId(hash_seed, original_url),
             [original_url |-> original_url,
              bypassed_url |-> bypassed_url,
              created_at   |-> now,
              hit_count    |-> 1])

\* a write that stores the original URL as the bypassed one
cache_bypass_original(cache, original_url, bypassed_url, fault) ==
    IF fault # "ok" THEN cache
    ELSE Put(cache, CacheDocId(hash_seed, original_url),
             [original_url |-> original_url,
              bypassed_url |-> original_url,
              created_at   |-> now,
              hit_count    |-> 1])

\* cache_bypass: the collection afterwards (unchanged when the write raises)
cache_bypass(cache, original_url, bypassed_url, fault) ==
    IF fault # "ok" THEN cache
    ELSE Put(cache, CacheDocId(hash_seed, original_url),
             [original_url |-> original_url,
              bypassed_url |-> bypassed_url,
              created_at   |-> now,
              hit_count    |-> 1])

(* --------------------- AIBypassAgent: pattern store -------------------- *)

Range(seq) == {seq[i] : i \in DOMAIN seq}

\* a field overwritten with the new list
ArrayReplaced(old, new) == new

\* firestore.ArrayUnion
ArrayUnion(old, new) ==
    LET IsNew(x) == x \notin Range(old) IN old \o SelectSeq(new, IsNew)

\* firestore.Increment(1) on a field (a missing field counts as 0)
Increment(doc, field) == Get(doc, field, 0) + 1

\* get_learned_pattern: the pattern or None, and learned_patterns afterwards
get_learned_pattern(url, fault) ==
    LET domain == _extract_domain(url) IN
    IF domain \in DOMAIN learned_patterns
    THEN [ret |-> Some(learned_patterns[domain]), mem |-> learned_patterns]
    ELSE IF fault # "ok" \/ domain \notin DOMAIN patterns
    THEN [ret |-> None, mem |-> learned_patterns]
    ELSE [ret |-> Some(patterns[domain]),
          mem |-> Put(learned_patterns, domain, patterns[domain])]

\* the record learn_from_success stores
SuccessPattern(domain, method_used, analysis) ==
    [domain              |-> domain,
     protection_type     |-> Get(analysis, "protection_type", "unknown"),
     method_used         |-> method_used,
     success_rate        |-> 100,
     total_attempts      |-> 1,
     successful_attempts |-> 1]

\* learn_from_success: the collection and learned_patterns afterwards
learn_from_success(store, url, method_used, analysis, fault) ==
    LET domain == _extract_domain(url)
        pattern == SuccessPattern(domain, method_used, analysis)
    IN  IF fault # "ok" THEN [store |-> store, mem |-> learned_patterns]
        ELSE [store |-> Put(store, domain, pattern),
              mem   |-> Put(learned_patterns, domain, pattern)]

\* a _learn_from_success that stores nothing
_learn_from_success_skipped(store, url, method, fault) ==
    [store |-> store, mem |-> learned_patterns]

\* IntelligentBypassSystem._learn_from_success
_learn_from_success(store, url, method, fault) ==
    learn_from_success(store, url, method,
        [protection_type |-> "traditional", method_used |-> method, confidence |-> 80],
        fault)

\* the record learn_from_failure creates for a new domain
FailurePattern(domain, failed_methods, error_message) ==
    [domain              |-> domain,
     protection_type     |-> "unknown",
     total_attempts      |-> 1,
     successful_attempts |-> 0,
     success_rate        |-> 0,
     failed_methods      |-> failed_methods,
     last_error          |-> error_message,
     needs_ai_analysis   |-> TRUE]

\* a learn_from_failure that updates and never creates
learn_from_failure_update_only(store, url, failed_methods, error_message, exists, fault) ==
    LET domain == _extract_domain(url) IN
    IF fault # "ok" \/ domain \notin DOMAIN store THEN store
    ELSE Put(store, domain,
             Merge(store[domain],
                   [total_attempts |-> Increment(store[domain], "total_attempts"),
                    last_error     |-> error_message]))

\* learn_from_failure after pattern_ref.get(): update the record when the
\* read found one, create it otherwise
learn_from_failure(store, url, failed_methods, error_message, exists, fault) ==
    LET domain == _extract_domain(url) IN
    IF fault # "ok" THEN store
    ELSE IF exists
    THEN IF domain \notin DOMAIN store THEN store
         ELSE Put(store, domain,
                  Merge(store[domain],
                        [total_attempts |-> Increment(store[domain], "total_attempts"),
                         failed_methods |->
                             ArrayUnion(Get(store[domain], "failed_methods", <<>>),
                                        failed_methods),
                         last_error     |-> error_message]))
    ELSE Put(store, domain, FailurePattern(domain, failed_methods, error_message))

\* an update that counts the success and not the attempt
_update_pattern_success_only(store, domain, fault) ==
    IF fault # "ok" \/ domain \notin DOMAIN store THEN store
    ELSE Put(store, domain,
             Merge(store[domain],
                   [successful_attempts |-> Increment(store[domain], "successful_attempts")]))

\* _update_pattern_success: the collection afterwards (Firestore's update
\* raises when the document does not exist; the exception is caught)
_update_pattern_success(store, domain, fault) ==
    IF fault # "ok" \/ domain \notin DOMAIN store THEN store
    ELSE Put(store, domain,
             Merge(store[domain],
                   [successful_attempts |-> Increment(store[domain], "successful_attempts"),
                    total_attempts      |-> Increment(store[domain], "total_attempts")]))

(* ----------------------- IntelligentBypassSystem ----------------------- *)

\* _format_result: the error key is set only for a non-empty error; the
\* keyword arguments are merged in last
_format_result(success, url, method, error, from_cache, kwargs) ==
    Merge(Merge([success |-> success, url |-> url, method |-> method,
                 from_cache |-> from_cache],
                IF error # "" THEN [error |-> error] ELSE EmptyStore),
          kwargs)

NoKwargs == EmptyStore

\* an analysis that does not ask whether an AI client is configured
analyze_page_structure_unchecked(env) ==
    IF env = "analysis_raises" THEN [error |-> "AI call failed"]
    ELSE IF env = "analysis_raises_empty" THEN [error |-> ""]
    ELSE [protection_type |-> "countdown_timer", bypass_strategy |-> "wait"]

\* analyze_page_structure: 'error' marks a failed analysis
analyze_page_structure(env) ==
    IF ~ai_available THEN [error |-> "AI service not available"]
    ELSE IF env = "analysis_raises" THEN [error |-> "AI call failed"]
    ELSE IF env = "analysis_raises_empty" THEN [error |-> ""]
    ELSE [protection_type |-> "countdown_timer", bypass_strategy |-> "wait"]

\* generate_bypass_code: the generated code or None
generate_bypass_code(env) ==
    IF ~ai_available THEN None
    ELSE IF env = "code" THEN Some("code") ELSE None

\* an _execute_ai_code that runs the code and gets a link from it
_execute_ai_code_runs(code, url) == Some(T1)

\* _execute_ai_code: execution is not implemented; always None
_execute_ai_code(code, url) == None

\* what the AI collaborators do in one _ai_assisted_bypass
AIEnvs == {"fetch_failed", "analysis_raises", "analysis_raises_empty", "no_code", "code"}

\* _ai_assisted_bypass: its result record
_ai_assisted_bypass(url, env) ==
    IF env = "fetch_failed"
    THEN _format_result(FALSE, None, "ai_fetch_failed",
                        "Failed to fetch page content", FALSE, NoKwargs)
    ELSE LET analysis == analyze_page_structure(env) IN
         IF "error" \in DOMAIN analysis
         THEN _format_result(FALSE, None, "ai_analysis_failed",
                             analysis.error, FALSE, NoKwargs)
         ELSE LET custom_code == generate_bypass_code(env) IN
              IF custom_code = None
              THEN _format_result(FALSE, None, "ai_code_generation_failed",
                                  "AI failed to generate bypass code", FALSE, NoKwargs)
              ELSE LET result == _execute_ai_code(custom_code[1], url) IN
                   IF result # None
                   THEN _format_result(TRUE, result, "ai_generated", "", FALSE,
                                       [analysis |-> analysis])
                   ELSE _format_result(FALSE, None, "ai_execution_failed",
                                       "AI-generated code failed to produce result",
                                       FALSE, [analysis |-> analysis])

\* the AIBypassAgent counters after one _ai_assisted_bypass
AnalysesAfter(env) ==
    IF env # "fetch_failed" /\ ai_available THEN total_analyses + 1 ELSE total_analyses

GenerationsAfter(env) ==
    IF env = "code" /\ ai_available THEN successful_generations + 1
    ELSE successful_generations

\* a gate that asks only whether a pattern was found
AnyPattern(learned_pattern) == learned_pattern # None

\* bypass, step 2: a pattern is tried only above 50% success_rate
ConfidentPattern(learned_pattern) ==
    learned_pattern # None /\ Get(learned_pattern[1], "success_rate", 0) > 50

\* a _try_learned_method that updates the statistics as soon as the method
\* has been awaited, whatever it returned
_try_learned_method_eager(url, learned_pattern, site, fault) ==
    LET method == GetEngineAttr(Get(learned_pattern, "method_used", ""))
        stats == _update_pattern_success(patterns, Get(learned_pattern, "domain", <<>>),
                                         fault)
    IN  IF method = None
        THEN [result |-> _format_result(FALSE, None, "learned_method_not_found",
                                        "", FALSE, NoKwargs),
              store |-> patterns, invoked |-> None]
        ELSE LET result == EngineCall(method[1], url, site) IN
             IF result = None
             THEN [result |-> _format_result(FALSE, None, "learned_method_failed",
                                             "", FALSE, NoKwargs),
                   store |-> stats, invoked |-> method]
             ELSE [result |-> _format_result(TRUE, result,
                                  "learned_" \o learned_pattern.method_used, "",
                                  FALSE, NoKwargs),
                   store |-> stats, invoked |-> method]

\* _try_learned_method: its result record and the pattern collection
\* afterwards; invoked tells whether the engine method was awaited
_try_learned_method(url, learned_pattern, site, fault) ==
    LET same(r, inv) == [result |-> r, store |-> patterns, invoked |-> inv] IN
    IF "method_used" \notin DOMAIN learned_pattern
    THEN same(_format_result(FALSE, None, "learned_method_error",
                             "attribute name must be string", FALSE, NoKwargs), None)
    ELSE LET method_name == learned_pattern.method_used
             method == GetEngineAttr(method_name)
         IN  IF method = None
             THEN same(_format_result(FALSE, None, "learned_method_not_found",
                                      "", FALSE, NoKwargs), None)
             ELSE LET result == EngineCall(method[1], url, site) IN
                  IF result = None
                  THEN same(_format_result(FALSE, None, "learned_method_failed",
                                           "", FALSE, NoKwargs), method)
                  ELSE IF "domain" \notin DOMAIN learned_pattern
                  THEN same(_format_result(FALSE, None, "learned_method_error",
                                           "'domain'", FALSE, NoKwargs), method)
                  ELSE [result  |-> _format_result(TRUE, result,
                                        "learned_" \o method_name, "", FALSE, NoKwargs),
                        store   |-> _update_pattern_success(patterns,
                                        learned_pattern.domain, fault),
                        invoked |-> method]

\* round(x / y * 100, 2), in hundredths of a percent
Percent(x, y) == (2 * x * 10000 + y) \div (2 * y)

\* get_statistics: the two rates are 0 while total_attempts is 0
get_statistics ==
    [total_attempts       |-> total_attempts,
     successful_bypasses  |-> successful_bypasses,
     success_rate         |-> IF total_attempts > 0
                              THEN Percent(successful_bypasses, total_attempts) ELSE 0,
     cache_hits           |-> cache_hits,
     ai_assisted_bypasses |-> ai_assisted_bypasses,
     ai_usage_rate        |-> IF total_attempts > 0
                              THEN Percent(ai_assisted_bypasses, total_attempts) ELSE 0]

(* ------------------------ one bypass call: state ----------------------- *)

IdleCall ==
    [pc |-> "idle", url |-> None, site |-> "down", reg |-> 0, learned_pattern |-> None, k |-> 0,
     failed_methods |-> <<>>, result |-> None, exists |-> FALSE]

\* what is recorded about a call: the events it went through, the record it
\* returned, the calls that had returned when it was made (before), what its
\* cache lookup found and when (seen), the created_at of the cache document
\* it hit or wrote (entry_time), whether a store operation of the call raised
\* (faulted), and the pattern document of its domain when the call was made
\* (pat0), when learn_from_failure read it (patf) and on return (pat1), and
\* the cache document of its URL on return (cache1), and whether the call
\* was cancelled
IdleHist ==
    [trace |-> <<>>, ret |-> None, before |-> {},
     seen |-> [present |-> FALSE, age |-> 0, at |-> 0],
     entry_time |-> 0, faulted |-> FALSE,
     pat0 |-> None, patf |-> None, pat1 |-> None, cache1 |-> None,
     cancelled |-> FALSE]

Url(c) == call[c].url[1]

\* an event of a call; got is what an awaited engine method returned
Event(kind, name) == [kind |-> kind, name |-> name, got |-> None]

Invoked(kind, name, got) == [kind |-> kind, name |-> name, got |-> got]

Lookup(store, key) == IF key \in DOMAIN store THEN Some(store[key]) ELSE None

\* the call moves on: its locals change by upd, it has done the events evs
\* and note is added to what is recorded about it
Step(c, upd, evs, note) ==
    /\ call' = [call EXCEPT ![c] = Merge(@, upd)]
    /\ hist' = [hist EXCEPT ![c] = Merge(Merge(@, note), [trace |-> @.trace \o evs])]

\* the call returns rec to its caller
Return(c, rec, evs, note) ==
    /\ call' = [call EXCEPT ![c].pc = "done"]
    /\ hist' = [hist EXCEPT ![c] =
                   Merge(Merge(@, note),
                         [trace  |-> @.trace \o evs,
                          ret    |-> Some(rec),
                          pat1   |-> Lookup(patterns', _extract_domain(Url(c))),
                          cache1 |-> Lookup(bypass_cache',
                                            CacheDocId(hash_seed, Url(c)))])]

CacheFaults == {"ok", "read", "write"}
Faults == {"ok", "fail"}


(* ------------------------ one bypass call: steps ----------------------- *)

\* bypass is called; self.total_attempts += 1 reads the counter
Begin(c, u, site, alone) ==
    /\ call[c].pc = "idle"
    /\ alone => \A b \in Calls : call[b].pc \in {"idle", "done", "cancelled", "rejected"}
    /\ \A b \in Calls : b < c => call[b].pc # "idle"
    /\ Step(c, [pc |-> "count", url |-> Some(u), site |-> site,
                reg |-> total_attempts], <<>>,
            [before |-> {b \in Calls : call[b].pc = "done"},
             pat0   |-> Lookup(patterns, _extract_domain(u))])
    /\ UNCHANGED <<counters, agent, learned_patterns, bypass_cache, patterns,
                   hash_seed, accounts, now>>

\* self.total_attempts += 1 writes the counter
CountAttempt(c) ==
    /\ call[c].pc = "count"
    /\ total_attempts' = call[c].reg + 1
    /\ Step(c, [pc |-> "check_cache"], <<>>, NoKwargs)
    /\ UNCHANGED <<successful_bypasses, ai_assisted_bypasses, cache_hits, agent,
                   learned_patterns, bypass_cache, patterns, hash_seed, accounts, now>>

\* step 1: _check_cache; on a hit self.cache_hits += 1 reads the counter
CheckCache(c, fault) ==
    /\ call[c].pc = "check_cache"
    /\ LET doc_id == CacheDocId(hash_seed, Url(c))
           got == get_cached_bypass(Url(c), fault)
           present == doc_id \in DOMAIN bypass_cache
           seen == [present |-> present,
                    age     |-> IF present THEN now - bypass_cache[doc_id].created_at ELSE 0,
                    at      |-> now]
           \* the read raised, or the update or the delete that follows it
           raised == fault = "read" \/ (fault = "write" /\ present)
       IN  /\ bypass_cache' = got.cache
           /\ IF got.ret # None
              THEN Step(c, [pc |-> "cache_hit", result |-> got.ret, reg |-> cache_hits],
                        <<Event("cache_lookup", "hit")>>,
                        [seen |-> seen,
                         entry_time |-> bypass_cache[doc_id].created_at,
                         faulted |-> hist[c].faulted \/ raised])
              ELSE Step(c, [pc |-> "get_pattern"],
                        <<Event("cache_lookup", "miss")>>,
                        [seen |-> seen, faulted |-> hist[c].faulted \/ raised])
    /\ UNCHANGED <<counters, agent, learned_patterns, patterns, hash_seed, accounts, now>>

\* the cache hit: self.cache_hits += 1 writes the counter; return
CacheHit(c) ==
    /\ call[c].pc = "cache_hit"
    /\ cache_hits' = call[c].reg + 1
    /\ UNCHANGED <<total_attempts, successful_bypasses, ai_assisted_bypasses, agent,
                   learned_patterns, bypass_cache, patterns, hash_seed, accounts, now>>
    /\ Return(c, _format_result(TRUE, call[c].result, "cache", "", TRUE, NoKwargs),
              <<>>, NoKwargs)

\* step 2: get_learned_pattern and the confidence gate
GetLearnedPattern(c, fault) ==
    /\ call[c].pc = "get_pattern"
    /\ LET got == get_learned_pattern(Url(c), fault) IN
       /\ learned_patterns' = got.mem
       /\ Step(c, [pc |-> IF ConfidentPattern(got.ret) THEN "try_learned"
                          ELSE "traditional",
                   learned_pattern |-> got.ret, k |-> 1],
               <<Event("pattern_lookup", "")>>,
               [faulted |-> hist[c].faulted
                    \/ (fault # "ok"
                        /\ _extract_domain(Url(c)) \notin DOMAIN learned_patterns)])
    /\ UNCHANGED <<counters, agent, bypass_cache, patterns, hash_seed, accounts, now>>

\* step 2: _try_learned_method; on success self.successful_bypasses += 1
\* reads the counter
TryLearned(c, fault) ==
    /\ call[c].pc = "try_learned"
    /\ LET got == _try_learned_method(Url(c), call[c].learned_pattern[1],
                                      call[c].site, fault)
           evs == <<Event("try_learned", "")>> \o
                  (IF got.invoked = None THEN <<>>
                   ELSE <<Invoked("invoke_learned", got.invoked[1], got.result.url)>>)
       IN  /\ patterns' = got.store
           /\ IF got.result.success
              THEN Step(c, [pc |-> "learned_ok", result |-> Some(got.result),
                            reg |-> successful_bypasses],
                        evs, [faulted |-> hist[c].faulted \/ fault # "ok"])
              ELSE Step(c, [pc |-> "traditional"], evs, NoKwargs)
    /\ UNCHANGED <<counters, agent, learned_patterns, bypass_cache, hash_seed, accounts, now>>

\* self.successful_bypasses += 1 writes; self.ai_assisted_bypasses += 1 reads
LearnedSuccess(c) ==
    /\ call[c].pc = "learned_ok"
    /\ successful_bypasses' = call[c].reg + 1
    /\ Step(c, [pc |-> "learned_cache", reg |-> ai_assisted_bypasses], <<>>, NoKwargs)
    /\ UNCHANGED <<total_attempts, ai_assisted_bypasses, cache_hits, agent,
                   learned_patterns, bypass_cache, patterns, hash_seed, accounts, now>>

\* what is recorded about a cache write of call c
WriteNote(c, fault) ==
    [entry_time |-> now, faulted |-> hist[c].faulted \/ fault # "ok"]

\* self.ai_assisted_bypasses += 1 writes; _cache_result; return result
LearnedReturn(c, fault) ==
    /\ call[c].pc = "learned_cache"
    /\ ai_assisted_bypasses' = call[c].reg + 1
    /\ bypass_cache' = cache_bypass(bypass_cache, Url(c), call[c].result[1].url[1], fault)
    /\ UNCHANGED <<total_attempts, successful_bypasses, cache_hits, agent,
                   learned_patterns, patterns, hash_seed, accounts, now>>
    /\ Return(c, call[c].result[1], <<Event("cache_write", "")>>, WriteNote(c, fault))

\* a step 3 whose last method, the browser automation, never returns
TryTraditionalHangs(c) ==
    /\ call[c].pc = "traditional"
    /\ call[c].k < NumMethods
    /\ LET method_name == methods[call[c].k].tag
           result == EngineCall(methods[call[c].k].func, Url(c), call[c].site)
           ev == <<Invoked("invoke", method_name, result)>>
       IN  IF result # None
           THEN Step(c, [pc |-> "traditional_ok", reg |-> successful_bypasses,
                         result |-> Some(_format_result(TRUE, result, method_name, "",
                                                        FALSE, NoKwargs))],
                     ev, NoKwargs)
           ELSE Step(c, [k |-> call[c].k + 1,
                         failed_methods |-> Append(call[c].failed_methods, method_name)],
                     ev, NoKwargs)
    /\ UNCHANGED <<counters, agent, learned_patterns, bypass_cache, patterns,
                   hash_seed, accounts, now>>

\* step 3, one iteration of _try_traditional_methods: methods[k] is awaited;
\* on a URL self.successful_bypasses += 1 reads the counter
TryTraditional(c) ==
    /\ call[c].pc = "traditional"
    /\ LET method_name == methods[call[c].k].tag
           result == EngineCall(methods[call[c].k].func, Url(c), call[c].site)
           failed_methods == Append(call[c].failed_methods, method_name)
           ev == <<Invoked("invoke", method_name, result)>>
       IN  IF result # None
           THEN Step(c, [pc |-> "traditional_ok", reg |-> successful_bypasses,
                         result |-> Some(_format_result(TRUE, result, method_name, "",
                                                        FALSE, NoKwargs))],
                     ev, NoKwargs)
           ELSE IF call[c].k < NumMethods
           THEN Step(c, [k |-> call[c].k + 1, failed_methods |-> failed_methods],
                     ev, NoKwargs)
           ELSE Step(c, [pc |-> "ai", failed_methods |-> failed_methods,
                         result |-> Some(_format_result(FALSE, None,
                                         "all_traditional_failed", "", FALSE,
                                         [failed_methods |-> failed_methods]))],
                     ev, NoKwargs)
    /\ UNCHANGED <<counters, agent, learned_patterns, bypass_cache, patterns,
                   hash_seed, accounts, now>>

\* the events of one kind that call c has gone through
Past(c, kind) ==
    LET IsKind(e) == e.kind = kind IN SelectSeq(hist[c].trace, IsKind)

\* a loop of step 3 that gives up at the first method that raises
TryTraditionalRaisesAborts(c) ==
    /\ call[c].pc = "traditional"
    /\ Len(Past(c, "raised")) < MaxRaises
    /\ LET method_name == methods[call[c].k].tag
           failed_methods == Append(call[c].failed_methods, method_name)
       IN  Step(c, [pc |-> "ai", failed_methods |-> failed_methods,
                    result |-> Some(_format_result(FALSE, None,
                                    "all_traditional_failed", "", FALSE,
                                    [failed_methods |-> failed_methods]))],
                <<Invoked("invoke", method_name, None), Event("raised", method_name)>>,
                NoKwargs)
    /\ UNCHANGED <<counters, agent, learned_patterns, bypass_cache, patterns,
                   hash_seed, accounts, now>>

\* step 3, one iteration of _try_traditional_methods in which the awaited
\* method raises an Exception: the handler of the loop appends the tag and
\* the loop goes on
TryTraditionalRaises(c) ==
    /\ call[c].pc = "traditional"
    /\ Len(Past(c, "raised")) < MaxRaises
    /\ LET method_name == methods[call[c].k].tag
           failed_methods == Append(call[c].failed_methods, method_name)
           ev == <<Invoked("invoke", method_name, None), Event("raised", method_name)>>
       IN  IF call[c].k < NumMethods
           THEN Step(c, [k |-> call[c].k + 1, failed_methods |-> failed_methods],
                     ev, NoKwargs)
           ELSE Step(c, [pc |-> "ai", failed_methods |-> failed_methods,
                         result |-> Some(_format_result(FALSE, None,
                                         "all_traditional_failed", "", FALSE,
                                         [failed_methods |-> failed_methods]))],
                     ev, NoKwargs)
    /\ UNCHANGED <<counters, agent, learned_patterns, bypass_cache, patterns,
                   hash_seed, accounts, now>>

\* step 3 succeeded: self.successful_bypasses += 1 writes; _cache_result;
\* _learn_from_success when no pattern was found in step 2; return
TraditionalSuccess(c, cfault, pfault) ==
    /\ call[c].pc = "traditional_ok"
    /\ LET traditional_result == call[c].result[1]
           learns == call[c].learned_pattern = None
           learnt == _learn_from_success(patterns, Url(c), traditional_result.method,
                                         pfault)
       IN  /\ successful_bypasses' = call[c].reg + 1
           /\ bypass_cache' = cache_bypass(bypass_cache, Url(c),
                                           traditional_result.url[1], cfault)
           /\ patterns' = IF learns THEN learnt.store ELSE patterns
           /\ learned_patterns' = IF learns THEN learnt.mem ELSE learned_patterns
           /\ pfault = "ok" \/ learns
           /\ UNCHANGED <<total_attempts, ai_assisted_bypasses, cache_hits, agent,
                          hash_seed, accounts, now>>
           /\ Return(c, traditional_result,
                     <<Event("cache_write", "")>> \o
                     (IF learns THEN <<Event("learn_success", traditional_result.method)>>
                      ELSE <<>>),
                     Merge(WriteNote(c, cfault),
                           [faulted |-> hist[c].faulted \/ cfault # "ok" \/ pfault # "ok"]))

\* step 4: _ai_assisted_bypass. On success (not reached while _execute_ai_code
\* returns None) the counters, the cache and the pattern store are updated and
\* the result returned; otherwise step 5 follows.
AIAssisted(c, env, cfault, pfault) ==
    /\ call[c].pc = "ai"
    /\ LET ai_result == _ai_assisted_bypass(Url(c), env)
           learnt == learn_from_success(patterns, Url(c), ai_result.method,
                                        Get(ai_result, "analysis", EmptyStore), pfault)
       IN  /\ total_analyses' = AnalysesAfter(env)
           /\ successful_generations' = GenerationsAfter(env)
           /\ UNCHANGED <<total_attempts, cache_hits, ai_available, hash_seed, accounts, now>>
           /\ IF ai_result.success
              THEN /\ successful_bypasses' = successful_bypasses + 1
                   /\ ai_assisted_bypasses' = ai_assisted_bypasses + 1
                   /\ bypass_cache' = cache_bypass(bypass_cache, Url(c),
                                                   ai_result.url[1], cfault)
                   /\ patterns' = learnt.store
                   /\ learned_patterns' = learnt.mem
                   /\ Return(c, ai_result, <<Event("ai", env)>>, WriteNote(c, cfault))
              ELSE /\ cfault = "ok" /\ pfault = "ok"
                   /\ UNCHANGED <<successful_bypasses, ai_assisted_bypasses,
                                  bypass_cache, patterns, learned_patterns>>
                   /\ Step(c, [pc |-> "learn_failure",
                               result |-> Some(ai_result)],
                           <<Event("ai", env)>>, NoKwargs)

\* step 5, learn_from_failure: pattern_ref.get(). When it raises the
\* exception is caught and bypass returns its failure result.
AllFailed ==
    _format_result(FALSE, None, "none", "All bypass methods failed", FALSE, NoKwargs)

LearnFailureGet(c, fault) ==
    /\ call[c].pc = "learn_failure"
    /\ UNCHANGED <<counters, agent, learned_patterns, bypass_cache, patterns,
                   hash_seed, accounts, now>>
    /\ LET domain == _extract_domain(Url(c)) IN
       IF fault # "ok"
       THEN Return(c, AllFailed, <<Event("record_failure", "raised")>>,
                   [faulted |-> TRUE, patf |-> Lookup(patterns, domain)])
       ELSE Step(c, [pc |-> "learn_failure_write", exists |-> domain \in DOMAIN patterns],
                 <<>>, [patf |-> Lookup(patterns, domain)])

\* step 5, learn_from_failure: the update or the set; bypass returns its
\* failure result
LearnFailureWrite(c, fault) ==
    /\ call[c].pc = "learn_failure_write"
    /\ patterns' = learn_from_failure(patterns, Url(c), call[c].failed_methods,
                                      Get(call[c].result[1], "error", "Unknown error"),
                                      call[c].exists, fault)
    /\ UNCHANGED <<counters, agent, learned_patterns, bypass_cache, hash_seed, accounts, now>>
    /\ Return(c, AllFailed,
              <<Event("record_failure", IF fault = "ok" THEN "stored" ELSE "raised")>>,
              [faulted |-> hist[c].faulted \/ fault # "ok"])

\* no call is running
Quiet == \A c \in Calls : call[c].pc \in {"idle", "done", "cancelled", "rejected"}

\* time passes; the clock counts hours and a call lasts minutes, so the
\* clock moves between calls. Only differences between times matter, so the
\* clock starts with the first call.
Tick ==
    /\ Quiet
    /\ call[1].pc # "idle"
    /\ now + TickHours <= MaxNow
    /\ now' = now + TickHours
    /\ UNCHANGED <<counters, agent, learned_patterns, bypass_cache, patterns,
                   hash_seed, accounts, call, hist>>

(* --------------------------- the specification ------------------------- *)

\* pattern documents that the store may hold for a domain when the process
\* starts: one recorded under a method tag, as learn_from_success records
\* them; one recorded under the name of an engine method; one without a
\* success_rate. The collection is schemaless and outlives the process.
SeedPatterns(domain) ==
    { [domain |-> domain, protection_type |-> "traditional",
       method_used |-> "redirect_chain", success_rate |-> 80,
       total_attempts |-> 5, successful_attempts |-> 4],
      [domain |-> domain, protection_type |-> "traditional",
       method_used |-> "method_redirect", success_rate |-> 80,
       total_attempts |-> 5, successful_attempts |-> 4],
      [domain |-> domain, protection_type |-> "unknown",
       method_used |-> "html_form",
       total_attempts |-> 2, successful_attempts |-> 1] }

SeededDomain == _extract_domain(U1)

\* the document of a free user who has one bypass left today, and the
\* document of a token that has not been redeemed
FreeUser(user_id) ==
    [user_id |-> user_id, is_premium |-> FALSE,
     daily_bypass_count |-> FREE_USER_DAILY_LIMIT - 1, last_reset_date |-> 0]

NewToken ==
    [is_used |-> FALSE, used_by |-> None, expires_at |-> TokenExpiresAt]

Init ==
    /\ total_attempts = 0
    /\ successful_bypasses = 0
    /\ ai_assisted_bypasses = 0
    /\ cache_hits = 0
    /\ ai_available \in BOOLEAN
    /\ total_analyses = 0
    /\ successful_generations = 0
    /\ learned_patterns = EmptyStore
    /\ bypass_cache = EmptyStore
    /\ patterns \in {EmptyStore} \cup
                    {Put(EmptyStore, SeededDomain, p) : p \in SeedPatterns(SeededDomain)}
    /\ hash_seed \in HashSeeds
    /\ users = [u \in UserIds |-> FreeUser(u)]
    /\ access_tokens = Put(EmptyStore, AccessToken, NewToken)
    /\ now = 0
    /\ call = [c \in Calls \cup Threads |-> IdleCall]
    /\ hist = [c \in Calls \cup Threads |-> IdleHist]

\* the steps of the calls that have been made: what the cache reads
\* (cacheFaults) and the other store operations (faults) do, and what the AI
\* collaborators do (envs)
Steps(cacheFaults, faults, envs) ==
    \/ \E c \in Calls : CountAttempt(c)
    \/ \E c \in Calls, fault \in cacheFaults : CheckCache(c, fault)
    \/ \E c \in Calls : CacheHit(c)
    \/ \E c \in Calls, fault \in faults : GetLearnedPattern(c, fault)
    \/ \E c \in Calls, fault \in faults : TryLearned(c, fault)
    \/ \E c \in Calls : LearnedSuccess(c)
    \/ \E c \in Calls, fault \in faults : LearnedReturn(c, fault)
    \/ \E c \in Calls : TryTraditional(c)
    \/ \E c \in Calls, cfault \in faults, pfault \in faults :
           TraditionalSuccess(c, cfault, pfault)
    \/ \E c \in Calls, env \in envs, cfault \in faults, pfault \in faults :
           AIAssisted(c, env, cfault, pfault)
    \/ \E c \in Calls, fault \in faults : LearnFailureGet(c, fault)
    \/ \E c \in Calls, fault \in faults : LearnFailureWrite(c, fault)

\* the calls, with the inputs drawn from the given sets: the URLs and the
\* sites, and the inputs of the steps; alone makes a call wait until no
\* other call runs
Run(urls, sites, cacheFaults, faults, envs, alone) ==
    \/ \E c \in Calls, u \in urls, site \in sites :
           Begin(c, u, site, alone)
    \/ Steps(cacheFaults, faults, envs)
    \/ Tick

\* the calls come one after another and the stores answer every operation
Next == Run(URLs, Sites, {"ok"}, {"ok"}, AIEnvs, TRUE)

Spec == Init /\ [][Next]_vars

\* the calls come one after another; every store operation may raise
OutageURLs == {U1, U2}
OutageSites == {"down", "anchor"}
OutageEnvs == {"fetch_failed", "analysis_raises"}

NextOutage == Run(OutageURLs, OutageSites, CacheFaults, Faults, OutageEnvs, TRUE)

SpecOutage == Init /\ [][NextOutage]_vars

\* the calls run at the same time, each in its own server thread
ConcurrentURLs == {U1}
ConcurrentSites == {"down", "anchor", "mirror"}
ConcurrentEnvs == {"fetch_failed"}

NextConcurrent ==
    Run(ConcurrentURLs, ConcurrentSites, {"ok"}, {"ok"}, ConcurrentEnvs, FALSE)

SpecConcurrent == Init /\ [][NextConcurrent]_vars

\* bypass's handler of an exception that escapes its try block: the result
\* it returns for the exception's text str(e)
bypass_except(e) == _format_result(FALSE, None, "error", e, FALSE, NoKwargs)

\* the positions of a call inside the try block of bypass
TryBlock ==
    {"check_cache", "cache_hit", "get_pattern", "try_learned", "learned_ok",
     "learned_cache", "traditional", "traditional_ok", "ai", "learn_failure",
     "learn_failure_write"}

\* the texts of the exceptions: MemoryError() and asyncio.TimeoutError() have
\* the empty text
ExceptionTexts == {"", "'>' not supported between instances of 'str' and 'int'"}

\* an exception escapes inside the try block of bypass and its handler
\* returns the internal-exception result
InternalError(c, e) ==
    /\ call[c].pc \in TryBlock
    /\ UNCHANGED <<counters, agent, learned_patterns, bypass_cache, patterns,
                   hash_seed, accounts, now>>
    /\ Return(c, bypass_except(e), <<Event("exception", e)>>, NoKwargs)

\* the calls come one after another, the stores answer, and an exception may
\* escape into the handler of bypass
InternalURLs == {U2}
InternalSites == {"down", "anchor"}
InternalEnvs == {"fetch_failed"}

NextInternal ==
    \/ Run(InternalURLs, InternalSites, {"ok"}, {"ok"}, InternalEnvs, TRUE)
    \/ \E c \in Calls, e \in ExceptionTexts : InternalError(c, e)

SpecInternal == Init /\ [][NextInternal]_vars

\* the task that runs the call is cancelled while the call is suspended in
\* an engine method or in step 4. The CancelledError leaves bypass, whose
\* handlers catch Exception only, unless the method swallows it (swallowed):
\* then the method returns None and the call goes on.
Cancel(c, swallowed) ==
    /\ UNCHANGED <<counters, agent, learned_patterns, bypass_cache, patterns,
                   hash_seed, accounts, now>>
    /\ LET raised ==
               /\ ~swallowed
               /\ call' = [call EXCEPT ![c].pc = "cancelled"]
               /\ hist' = [hist EXCEPT ![c] =
                              Merge(@, [trace     |-> @.trace \o <<Event("cancel", "raised")>>,
                                        cancelled |-> TRUE])]
       IN  CASE call[c].pc = "traditional" ->
                    LET method_name == methods[call[c].k].tag
                        func == methods[call[c].k].func
                        failed_methods == Append(call[c].failed_methods, method_name)
                    IN  /\ Suspends(func)
                        /\ IF swallowed
                           THEN /\ SwallowsCancel(func, call[c].site)
                                /\ call[c].k < NumMethods
                                /\ Step(c, [k |-> call[c].k + 1,
                                            failed_methods |-> failed_methods],
                                        <<Event("cancel", "swallowed"),
                                          Invoked("invoke", method_name, None)>>,
                                        [cancelled |-> TRUE])
                           ELSE raised
             [] call[c].pc = "try_learned" ->
                    LET method == GetEngineAttr(Get(call[c].learned_pattern[1],
                                                    "method_used", ""))
                    IN  /\ method # None
                        /\ Suspends(method[1])
                        /\ IF swallowed
                           THEN /\ SwallowsCancel(method[1], call[c].site)
                                /\ Step(c, [pc |-> "traditional"],
                                        <<Event("cancel", "swallowed"),
                                          Event("try_learned", ""),
                                          Invoked("invoke_learned", method[1], None)>>,
                                        [cancelled |-> TRUE])
                           ELSE raised
             [] call[c].pc = "ai" -> raised
             [] OTHER -> FALSE

\* the calls come one after another, the stores answer, and a call may be
\* cancelled where it is suspended
CancelURLs == {U1}
CancelSites == {"down", "api"}
CancelEnvs == {"fetch_failed"}

NextCancel ==
    \/ Run(CancelURLs, CancelSites, {"ok"}, {"ok"}, CancelEnvs, TRUE)
    \/ \E c \in Calls, swallowed \in BOOLEAN : Cancel(c, swallowed)

SpecCancel == Init /\ [][NextCancel]_vars

\* what urlparse makes of strings that are no http(s) URLs: the empty
\* string, a text without scheme and host, and a URL of another scheme. The
\* URLs above are http URLs.
EmptyText == [scheme |-> "", netloc |-> <<"">>, path |-> ""]
PlainText == [scheme |-> "", netloc |-> <<"">>, path |-> "not a url"]
FtpUrl == [scheme |-> "ftp", netloc |-> <<"short", "io">>, path |-> "/a"]

Scheme(url) == IF "scheme" \in DOMAIN url THEN url.scheme ELSE "http"

\* utils.is_valid_url: scheme and netloc are set and the scheme is http(s)
is_valid_url(url) ==
    /\ Scheme(url) # "" /\ url.netloc # <<"">>
    /\ Scheme(url) \in {"http", "https"}

\* a fetch of a string that is no http(s) URL raises
SiteServes(url, site) == is_valid_url(url) \/ site = "down"

\* a request that its entry point answers without calling bypass
Reject(c, url) ==
    /\ call[c].pc = "idle"
    /\ Quiet
    /\ \A b \in Calls : b < c => call[b].pc # "idle"
    /\ call' = [call EXCEPT ![c] = Merge(@, [pc |-> "rejected", url |-> Some(url)])]
    /\ UNCHANGED <<counters, agent, learned_patterns, bypass_cache, patterns,
                   hash_seed, accounts, now, hist>>

\* POST /api/bypass: 400 when the url of the body is missing or empty,
\* otherwise bypass(url)
api_bypass(c, url, site) ==
    /\ SiteServes(url, site)
    /\ IF url = EmptyText THEN Reject(c, url) ELSE Begin(c, url, site, TRUE)

\* /bypass <link> and a link sent as a message, for a user who is allowed and
\* within the rate limit: the reply for an invalid URL, otherwise bypass(url)
bypass_command(c, url, site) ==
    /\ SiteServes(url, site)
    /\ IF ~is_valid_url(url) THEN Reject(c, url) ELSE Begin(c, url, site, TRUE)

\* the requests come one after another through the two entry points
EntryURLs == {U1, EmptyText, PlainText, FtpUrl}
EntrySites == {"down", "anchor"}
EntryEnvs == {"fetch_failed"}

NextEntry ==
    \/ \E c \in Calls, url \in EntryURLs, site \in EntrySites :
           api_bypass(c, url, site)
    \/ \E c \in Calls, url \in EntryURLs, site \in EntrySites :
           bypass_command(c, url, site)
    \/ Steps({"ok"}, {"ok"}, EntryEnvs)
    \/ Tick

SpecEntry == Init /\ [][NextEntry]_vars

\* the calls come one after another, the stores answer, and a method of
\* step 3 may raise
RaiseURLs == {U2}
RaiseSites == {"down", "plain"}
RaiseEnvs == {"fetch_failed"}

NextRaise ==
    \/ Run(RaiseURLs, RaiseSites, {"ok"}, {"ok"}, RaiseEnvs, TRUE)
    \/ \E c \in Calls : TryTraditionalRaises(c)

SpecRaise == Init /\ [][NextRaise]_vars

\* the calls come one after another; every store operation may raise, the
\* fetches may fail and the AI call may raise. Every collaborator answers in
\* the end (the requests carry timeouts), so a call that can take a step
\* takes one.
LiveURLs == {U1}
LiveSites == {"down", "anchor"}
LiveEnvs == {"fetch_failed", "analysis_raises"}

NextLive == Run(LiveURLs, LiveSites, CacheFaults, Faults, LiveEnvs, TRUE)

SpecLive ==
    Init /\ [][NextLive]_vars /\ WF_vars(Steps(CacheFaults, Faults, LiveEnvs))

\* the requests of /api/bypass that the server handles at the same time,
\* for a URL whose site yields its link; the stores answer
RaceURLs == {U1}
RaceSites == {"anchor"}

NextRace ==
    \/ \E c \in Threads, u \in RaceURLs, site \in RaceSites : Begin(c, u, site, FALSE)
    \/ \E c \in Threads : CountAttempt(c)
    \/ \E c \in Threads : CheckCache(c, "ok")
    \/ \E c \in Threads : CacheHit(c)
    \/ \E c \in Threads : GetLearnedPattern(c, "ok")
    \/ \E c \in Threads : TryLearned(c, "ok")
    \/ \E c \in Threads : LearnedSuccess(c)
    \/ \E c \in Threads : LearnedReturn(c, "ok")
    \/ \E c \in Threads : TryTraditional(c)
    \/ \E c \in Threads : TraditionalSuccess(c, "ok", "ok")

SpecRace == Init /\ [][NextRace]_vars

\* the process is restarted between two calls: the objects are constructed
\* anew and the interpreter draws a new hash salt; the two Firestore
\* collections are kept
Restart ==
    /\ Quiet
    /\ call[1].pc # "idle"
    /\ total_attempts' = 0
    /\ successful_bypasses' = 0
    /\ ai_assisted_bypasses' = 0
    /\ cache_hits' = 0
    /\ total_analyses' = 0
    /\ successful_generations' = 0
    /\ learned_patterns' = EmptyStore
    /\ hash_seed' \in HashSeeds
    /\ UNCHANGED <<ai_available, bypass_cache, patterns, accounts, now, call, hist>>

\* the calls come one after another, the stores answer, and the process may
\* be restarted between calls
RestartURLs == {U1}
RestartSites == {"down", "anchor"}
RestartEnvs == {"fetch_failed"}

NextRestart ==
    \/ Run(RestartURLs, RestartSites, {"ok"}, {"ok"}, RestartEnvs, TRUE)
    \/ Restart

SpecRestart == Init /\ [][NextRestart]_vars

\* three calls come one after another for URLs of one domain; the stores
\* answer
GateURLs == {U1, U2}
GateSites == {"down", "anchor"}
GateEnvs == {"fetch_failed"}

NextGate ==
    \/ \E c \in Threads, u \in GateURLs, site \in GateSites : Begin(c, u, site, TRUE)
    \/ \E c \in Threads : CountAttempt(c)
    \/ \E c \in Threads : CheckCache(c, "ok")
    \/ \E c \in Threads : CacheHit(c)
    \/ \E c \in Threads : GetLearnedPattern(c, "ok")
    \/ \E c \in Threads : TryLearned(c, "ok")
    \/ \E c \in Threads : LearnedSuccess(c)
    \/ \E c \in Threads : LearnedReturn(c, "ok")
    \/ \E c \in Threads : TryTraditional(c)
    \/ \E c \in Threads : TraditionalSuccess(c, "ok", "ok")
    \/ \E c \in Threads, env \in GateEnvs : AIAssisted(c, env, "ok", "ok")
    \/ \E c \in Threads : LearnFailureGet(c, "ok")
    \/ \E c \in Threads : LearnFailureWrite(c, "ok")

SpecGate == Init /\ [][NextGate]_vars

(* ------------------ the chat handlers: the daily limit ----------------- *)

\* date.today(), in days
today == now \div 24

\* check_user_status: the handler reads the document of the user
check_user_status(c, user_id) ==
    /\ call[c].pc = "idle"
    /\ "user_data" \notin DOMAIN call[c]
    /\ \A b \in Calls : b < c => "user_data" \in DOMAIN call[b]
    /\ call' = [call EXCEPT ![c] = Merge(@, [user_data |-> users[user_id]])]
    /\ UNCHANGED <<counters, agent, learned_patterns, bypass_cache, patterns,
                   hash_seed, accounts, now, hist>>

\* check_rate_limit on the user_data that the handler read: a premium user
\* passes; on a new day the stored counter is reset and the user passes; a
\* free user whose count has reached the limit is refused
check_rate_limit(c) ==
    /\ call[c].pc = "idle"
    /\ "user_data" \in DOMAIN call[c]
    /\ "can_bypass" \notin DOMAIN call[c]
    /\ LET user_data == call[c].user_data
           reset == ~user_data.is_premium /\ user_data.last_reset_date # today
           daily_count == IF reset THEN 0 ELSE user_data.daily_bypass_count
           can_bypass == user_data.is_premium \/ daily_count < FREE_USER_DAILY_LIMIT
       IN  /\ users' = IF reset
                       THEN [users EXCEPT ![user_data.user_id] =
                                Merge(@, [daily_bypass_count |-> 0,
                                          last_reset_date    |-> today])]
                       ELSE users
           /\ call' = [call EXCEPT ![c] =
                          Merge(@, [can_bypass |-> can_bypass,
                                    pc |-> IF can_bypass THEN "idle" ELSE "rejected"])]
    /\ UNCHANGED <<counters, agent, learned_patterns, bypass_cache, patterns,
                   hash_seed, access_tokens, now, hist>>

\* _process_bypass: the processing message is sent and bypass is called
_process_bypass(c, url, site) ==
    /\ Get(call[c], "can_bypass", FALSE)
    /\ Begin(c, url, site, FALSE)

\* _process_bypass after a successful bypass: db.increment_bypass_count, a
\* Firestore Increment on the document of the user
increment_bypass_count(c) ==
    /\ call[c].pc = "done"
    /\ Get(call[c], "can_bypass", FALSE)
    /\ "counted" \notin DOMAIN call[c]
    /\ hist[c].ret[1].success
    /\ users' = [users EXCEPT ![call[c].user_data.user_id].daily_bypass_count = @ + 1]
    /\ call' = [call EXCEPT ![c] = Merge(@, [counted |-> TRUE])]
    /\ UNCHANGED <<counters, agent, learned_patterns, bypass_cache, patterns,
                   hash_seed, access_tokens, now, hist>>

\* the links that one free user sends; the updates are handled at the same
\* time, each by its own thread of the webhook server
LimitUsers == {7}
LimitURLs == {U1}
LimitSites == {"down", "anchor"}
LimitEnvs == {"fetch_failed"}

NextLimit ==
    \/ \E c \in Calls, user_id \in LimitUsers : check_user_status(c, user_id)
    \/ \E c \in Calls : check_rate_limit(c)
    \/ \E c \in Calls, url \in LimitURLs, site \in LimitSites :
           _process_bypass(c, url, site)
    \/ \E c \in Calls : increment_bypass_count(c)
    \/ Steps({"ok"}, {"ok"}, LimitEnvs)
    \/ Tick

SpecLimit == Init /\ [][NextLimit]_vars

(* ---------------------- access tokens: redemption --------------------- *)

\* redeem_access_token returns (success, message)
Redeemed(c, success, message, note) ==
    /\ call' = [call EXCEPT ![c] = Merge(@, Merge(note, [pc |-> "done"]))]
    /\ hist' = [hist EXCEPT ![c].ret = Some([success |-> success, message |-> message])]

\* redeem_access_token up to its call of use_token: db.get_token and the
\* tests of the document read
redeem_access_token(c, user_id, token) ==
    /\ call[c].pc = "idle"
    /\ \A b \in Threads : b < c => call[b].pc # "idle"
    /\ LET token_data == Lookup(access_tokens, token)
           note == [user_id |-> user_id, token |-> token, token_data |-> token_data]
       IN  IF token_data = None
           THEN Redeemed(c, FALSE, "Invalid access token", note)
           ELSE IF token_data[1].is_used
           THEN Redeemed(c, FALSE, "This token has already been used", note)
           ELSE IF now > token_data[1].expires_at
           THEN Redeemed(c, FALSE, "This token has expired", note)
           ELSE /\ call' = [call EXCEPT ![c] = Merge(@, Merge(note, [pc |-> "use_token"]))]
                /\ UNCHANGED hist
    /\ UNCHANGED <<counters, agent, learned_patterns, bypass_cache, patterns,
                   hash_seed, accounts, now>>

\* use_token: token_ref.get()
use_token_get(c) ==
    /\ call[c].pc = "use_token"
    /\ call' = [call EXCEPT ![c] =
                   Merge(@, [pc        |-> "use_token_update",
                             token_doc |-> Lookup(access_tokens, call[c].token)])]
    /\ UNCHANGED <<counters, agent, learned_patterns, bypass_cache, patterns,
                   hash_seed, accounts, now, hist>>

\* use_token after its read: False for a document that is missing or used,
\* otherwise token_ref.update marks the token as used. When use_token
\* returns False, redeem_access_token returns its failure.
use_token(c) ==
    /\ call[c].pc = "use_token_update"
    /\ IF call[c].token_doc = None \/ call[c].token_doc[1].is_used
       THEN /\ Redeemed(c, FALSE, "Failed to redeem token. It may have been used already.",
                        EmptyStore)
            /\ UNCHANGED access_tokens
       ELSE /\ access_tokens' =
                   [access_tokens EXCEPT ![call[c].token] =
                       Merge(@, [is_used |-> TRUE, used_by |-> Some(call[c].user_id)])]
            /\ call' = [call EXCEPT ![c].pc = "grant"]
            /\ UNCHANGED hist
    /\ UNCHANGED <<counters, agent, learned_patterns, bypass_cache, patterns,
                   hash_seed, users, now>>

\* redeem_access_token after use_token returned True: db.update_user makes
\* the user premium, and the success is returned
GrantPremium(c) ==
    /\ call[c].pc = "grant"
    /\ users' = [users EXCEPT ![call[c].user_id].is_premium = TRUE]
    /\ Redeemed(c, TRUE, "Premium Activated", EmptyStore)
    /\ UNCHANGED <<counters, agent, learned_patterns, bypass_cache, patterns,
                   hash_seed, access_tokens, now>>

\* the clock moves while tokens are redeemed
Hour ==
    /\ call[1].pc # "idle"
    /\ now + TickHours <= MaxNow
    /\ now' = now + TickHours
    /\ UNCHANGED <<counters, agent, learned_patterns, bypass_cache, patterns,
                   hash_seed, accounts, call, hist>>

\* /redeem commands that arrive at the same time, at one bot instance or at
\* several that share the store
RedeemTokens == {AccessToken, "NOVA-UNKNOWN"}

NextRedeem ==
    \/ \E c \in Threads, user_id \in UserIds, token \in RedeemTokens :
           redeem_access_token(c, user_id, token)
    \/ \E c \in Threads : use_token_get(c)
    \/ \E c \in Threads : use_token(c)
    \/ \E c \in Threads : GrantPremium(c)
    \/ Hour

SpecRedeem == Init /\ [][NextRedeem]_vars

(* ------------------- BypassEngine: the methods alone ------------------- *)

\* what a site answers to method_redirect. The URLs of a chain are numbered,
\* 0 being the URL given: the URLs below len redirect to the next one, and
\* URL len answers with a page, with a redirect without Location, with a
\* redirect back to URL 0, or not at all (the request raises).
ChainEnds == {"page", "no_location", "back", "raises"}
Webs == [len : 0..MaxChain, end : ChainEnds]

Response(web, u) ==
    IF u < web.len THEN [status |-> 302, location |-> Some(u + 1)]
    ELSE CASE web.end = "page"        -> [status |-> 200, location |-> None]
           [] web.end = "no_location" -> [status |-> 302, location |-> None]
           [] web.end = "back"        -> [status |-> 302, location |-> Some(0)]
           [] OTHER                   -> [status |-> 0, location |-> None]

max_redirects == 10

\* the loop of method_redirect from its i-th round on
RECURSIVE redirect_loop(_, _, _, _)
redirect_loop(web, url, current_url, i) ==
    LET after == IF current_url # url THEN Some(current_url) ELSE None
        response == Response(web, current_url)
    IN  IF i = max_redirects THEN after
        ELSE IF response.status = 0 THEN None
        ELSE IF response.status \in {301, 302, 303, 307, 308}
        THEN IF response.location = None THEN after
             ELSE redirect_loop(web, url, response.location[1], i + 1)
        ELSE Some(current_url)

method_redirect(url, web) == redirect_loop(web, url, url, 0)

\* a loop that stops once max_redirects redirects have been followed
RECURSIVE redirect_requests_followed(_, _, _)
redirect_requests_followed(web, current_url, i) ==
    LET response == Response(web, current_url) IN
    IF i = max_redirects + 1 THEN <<>>
    ELSE <<current_url>> \o
         (IF response.status \in {301, 302, 303, 307, 308} /\ response.location # None
          THEN redirect_requests_followed(web, response.location[1], i + 1)
          ELSE <<>>)

\* the URLs that method_redirect requests from its i-th round on, in order
RECURSIVE redirect_requests(_, _, _)
redirect_requests(web, current_url, i) ==
    LET response == Response(web, current_url) IN
    IF i = max_redirects THEN <<>>
    ELSE <<current_url>> \o
         (IF response.status \in {301, 302, 303, 307, 308} /\ response.location # None
          THEN redirect_requests(web, response.location[1], i + 1)
          ELSE <<>>)

\* a string that the patterns of a method match in a page: whether it starts
\* with 'http', its host, the download indicator it contains (none: ""),
\* and whether the page carries it percent-encoded
Candidates ==
    { [absolute |-> TRUE,  netloc |-> <<"cdn", "files", "org">>,   token |-> ".zip",
       encoded |-> TRUE],
      [absolute |-> TRUE,  netloc |-> <<"www", "facebook", "com">>, token |-> "download",
       encoded |-> TRUE],
      [absolute |-> TRUE,  netloc |-> <<"example", "com">>,         token |-> "",
       encoded |-> TRUE],
      [absolute |-> FALSE, netloc |-> <<"">>,                       token |-> "get",
       encoded |-> FALSE] }

exclude_domains ==
    {<<"facebook", "com">>, <<"twitter", "com">>, <<"google", "com">>, <<"youtube", "com">>}

download_indicators ==
    {"download", "file", "get", ".pdf", ".zip", ".rar", ".mp4", ".mkv"}

\* domain in parsed.netloc
InNetloc(domain, netloc) ==
    \E i \in 1..(Len(netloc) - Len(domain) + 1) :
        SubSeq(netloc, i, i + Len(domain) - 1) = domain

_is_valid_download_link(url) ==
    /\ url.absolute
    /\ ~\E domain \in exclude_domains : InNetloc(domain, url.netloc)
    /\ url.token \in download_indicators

\* the first of the matches that pass the test of a method, or None
First(passing) == IF passing = <<>> THEN None ELSE Some(passing[1])

\* a page: the strings that the patterns of the method match (links; for
\* method_cloudflare the hrefs of the anchors) and the first URL of its
\* script, if it has one
LinkLists == UNION {[1..n -> Candidates] : n \in 0..MaxLinks}
ScriptLists == {<<>>} \cup {<<text>> : text \in Candidates}
Pages == {[links |-> l, scripts |-> sc] : l \in LinkLists, sc \in ScriptLists}

method_css_hidden(page) == First(SelectSeq(page.links, _is_valid_download_link))

method_javascript(page) == First(SelectSeq(page.links, _is_valid_download_link))

method_cloudflare(page) ==
    LET Matches(href) == href.token \in {"download", "get", "file"}
        IsUrl(text) == text.absolute
        link == First(SelectSeq(page.links, Matches))
    IN  IF link # None THEN link
        ELSE First(SelectSeq(SelectSeq(page.scripts, IsUrl), _is_valid_download_link))

method_base64(page) ==
    LET StartsWithHttp(decoded) == decoded.absolute IN
    First(SelectSeq(page.links, StartsWithHttp))

method_url_decode(page) ==
    LET Decodes(decoded) == decoded.absolute /\ decoded.encoded IN
    First(SelectSeq(page.links, Decodes))

FilteringMethods ==
    {"method_css_hidden", "method_javascript", "method_cloudflare", "method_base64",
     "method_url_decode"}

Extract(func, page) ==
    CASE func = "method_css_hidden" -> method_css_hidden(page)
      [] func = "method_javascript" -> method_javascript(page)
      [] func = "method_cloudflare" -> method_cloudflare(page)
      [] func = "method_base64"     -> method_base64(page)
      [] OTHER                      -> method_url_decode(page)

\* method c has been awaited: what it was given, what it returned and the
\* URLs it requested
Awaited(c, func, input, ret, requested) ==
    /\ call[c].pc = "idle"
    /\ \A b \in Calls : b < c => call[b].pc = "done"
    /\ call' = [call EXCEPT ![c].pc = "done"]
    /\ hist' = [hist EXCEPT ![c].trace =
                   <<Invoked(func, input, ret)>> \o
                   [n \in DOMAIN requested |-> Invoked("request", n, Some(requested[n]))]]
    /\ UNCHANGED <<counters, agent, learned_patterns, bypass_cache, patterns,
                   hash_seed, accounts, now>>

EngineRedirect(c, web) ==
    /\ web \in Webs
    /\ Awaited(c, "method_redirect", web, method_redirect(0, web),
               redirect_requests(web, 0, 0))

EngineExtract(c, func, page) ==
    /\ func = "method_cloudflare" \/ page.scripts = <<>>
    /\ Awaited(c, func, page, Extract(func, page), <<>>)

\* the methods are applied to sites on their own, with no store involved
InitEngine ==
    /\ Init
    /\ ~ai_available /\ hash_seed = 0 /\ patterns = EmptyStore

NextEngine ==
    \/ \E c \in Calls, web \in Webs : EngineRedirect(c, web)
    \/ \E c \in Calls, func \in FilteringMethods, page \in Pages :
           EngineExtract(c, func, page)

SpecEngine == InitEngine /\ [][NextEngine]_vars

\* the two learning operations of AIBypassAgent applied on their own, one
\* after another, to the pattern store: the methods and analyses that
\* learn_from_success is given, and the lists of attempted methods and the
\* messages that learn_from_failure is given
AgentMethods == {"html_form", "redirect_chain"}
AgentAnalyses == {[protection_type |-> "traditional"],
                  [protection_type |-> "countdown_timer"]}
AgentFailedLists == {<<"html_form">>, <<"html_form", "css_hidden">>,
                     <<"css_hidden", "javascript">>}
AgentErrors == {"All bypass methods failed", "Unknown error"}

\* operation c has been applied for url: what it was (ev) and the pattern
\* document of the domain before and after it
Applied(c, url, failed_methods, ev) ==
    /\ call' = [call EXCEPT ![c] =
                   Merge(@, [pc |-> "done", url |-> Some(url),
                             failed_methods |-> failed_methods])]
    /\ hist' = [hist EXCEPT ![c] =
                   Merge(@, [trace |-> <<ev>>,
                             pat0  |-> Lookup(patterns, _extract_domain(url)),
                             pat1  |-> Lookup(patterns', _extract_domain(url))])]

AgentLearnSuccess(c, url, method_used, analysis) ==
    /\ call[c].pc = "idle"
    /\ \A b \in Calls : b < c => call[b].pc = "done"
    /\ LET learnt == learn_from_success(patterns, url, method_used, analysis, "ok") IN
       /\ patterns' = learnt.store
       /\ learned_patterns' = learnt.mem
    /\ UNCHANGED <<counters, agent, bypass_cache, hash_seed, accounts, now>>
    /\ Applied(c, url, <<>>, Invoked("learn_from_success", method_used, Some(analysis)))

AgentLearnFailure(c, url, failed_methods, error_message) ==
    /\ call[c].pc = "idle"
    /\ \A b \in Calls : b < c => call[b].pc = "done"
    /\ patterns' = learn_from_failure(patterns, url, failed_methods, error_message,
                                      _extract_domain(url) \in DOMAIN patterns, "ok")
    /\ UNCHANGED <<counters, agent, learned_patterns, bypass_cache, hash_seed, accounts, now>>
    /\ Applied(c, url, failed_methods, Event("learn_from_failure", error_message))

NextAgent ==
    \/ \E c \in Calls, url \in URLs, method_used \in AgentMethods,
          analysis \in AgentAnalyses :
           AgentLearnSuccess(c, url, method_used, analysis)
    \/ \E c \in Calls, url \in URLs, failed_methods \in AgentFailedLists,
          error_message \in AgentErrors :
           AgentLearnFailure(c, url, failed_methods, error_message)

SpecAgent == Init /\ [][NextAgent]_vars

(* ------------------------------ properties ---------------------------- *)

Done(c) == call[c].pc = "done"

Ret(c) == hist[c].ret[1]

\* the call looked its URL up in the cache and missed
Missed(c) ==
    /\ Len(hist[c].trace) >= 1
    /\ hist[c].trace[1] = Event("cache_lookup", "miss")

\* the events of one kind that the call went through, in order
EventsOf(c, kind) ==
    LET IsKind(e) == e.kind = kind IN SelectSeq(hist[c].trace, IsKind)

\* the position of the first event of one kind in the trace (0: none)
FirstOf(c, kind) ==
    LET at == {i \in 1..Len(hist[c].trace) : hist[c].trace[i].kind = kind}
    IN  IF at = {} THEN 0 ELSE CHOOSE i \in at : \A j \in at : i <= j

\* the order of the extraction methods that the specification states
StatedOrder ==
    <<"html_form", "css_hidden", "javascript", "countdown_timer", "dynamic_content",
      "cloudflare", "redirect_chain", "base64_decode", "url_decode",
      "browser_automation">>

\* C1: on a cache miss for a domain without a learned pattern, step 3 awaits
\* the methods one at a time in the stated order: the j-th method awaited is
\* the j-th of the order, every method before the last one awaited returned
\* nothing, step 2 awaited no method, and a result that step 3 returns carries
\* the tag and the URL of the last method awaited, the first that returned a
\* URL.
C1_FixedOrder ==
    \A c \in Calls :
        (Missed(c) /\ hist[c].pat0 = None) =>
            LET inv == EventsOf(c, "invoke") IN
            /\ Len(inv) <= Len(StatedOrder)
            /\ \A j \in 1..Len(inv) : inv[j].name = StatedOrder[j]
            /\ \A j \in 1..(Len(inv) - 1) : inv[j].got = None
            /\ EventsOf(c, "invoke_learned") = <<>>
            /\ (Done(c) /\ Ret(c).success) =>
                   /\ inv # <<>>
                   /\ inv[Len(inv)].got # None
                   /\ Ret(c).method = inv[Len(inv)].name
                   /\ Ret(c).url = inv[Len(inv)].got
            /\ (Done(c) /\ ~Ret(c).success) =>
                   /\ Len(inv) = Len(StatedOrder)
                   /\ inv[Len(inv)].got = None

\* a call without a learned pattern whose seventh method was the first to
\* return a URL
C1_Witness ==
    \E c \in Calls :
        /\ Done(c) /\ Missed(c) /\ hist[c].pat0 = None
        /\ Ret(c).success /\ Ret(c).method = "redirect_chain"
        /\ Len(EventsOf(c, "invoke")) = 7

\* the call that returned last before call b was made, when every call made
\* before b had returned (the calls came in immediate succession)
Previous(a, b) ==
    /\ a \in hist[b].before
    /\ hist[b].before = 1..a
    /\ b = a + 1

\* C2: when a call for a URL succeeds and the next call is for the same URL
\* and looks the cache up before the entry's expiry, the second call returns
\* the URL that the first returned, with from_cache true and method 'cache'.
C2_SecondCallFromCache ==
    \A a \in Calls, b \in Calls :
        (/\ Done(a) /\ Done(b) /\ Previous(a, b)
         /\ Url(a) = Url(b)
         /\ Ret(a).success
         /\ hist[b].seen.at < hist[a].entry_time + CACHE_EXPIRY_HOURS)
        => /\ Ret(b).success
           /\ Ret(b).from_cache
           /\ Ret(b).method = "cache"
           /\ Ret(b).url = Ret(a).url

\* a URL resolved by an extraction method and then again, twelve hours later
C2_Witness ==
    \E a \in Calls, b \in Calls :
        /\ Done(a) /\ Done(b) /\ Previous(a, b)
        /\ Url(a) = Url(b)
        /\ Ret(a).success /\ ~Ret(a).from_cache
        /\ hist[b].seen.at = hist[a].entry_time + TickHours
        /\ Ret(b).from_cache

\* C3: a cache document whose age is CACHE_EXPIRY_HOURS or more is never
\* returned as a hit: the lookup misses, the call goes on to the pattern
\* lookup and to the extraction methods, and its result is not from the cache.
C3_ExpiredEntryNotServed ==
    \A c \in Calls :
        (/\ hist[c].trace # <<>>
         /\ hist[c].seen.present
         /\ hist[c].seen.age >= CACHE_EXPIRY_HOURS)
        => /\ Missed(c)
           /\ Len(hist[c].trace) >= 2 => hist[c].trace[2].kind = "pattern_lookup"
           /\ Done(c) =>
                  /\ ~Ret(c).from_cache
                  /\ Ret(c).method # "cache"
                  /\ EventsOf(c, "invoke") # <<>> \/ EventsOf(c, "invoke_learned") # <<>>

\* a call that found a cache document exactly CACHE_EXPIRY_HOURS old
C3_Witness ==
    \E c \in Calls :
        /\ Done(c)
        /\ hist[c].seen.present
        /\ hist[c].seen.age = CACHE_EXPIRY_HOURS
        /\ EventsOf(c, "invoke") # <<>>

\* the engine method that step 3 awaits under a tag
FuncOfTag(tag) ==
    LET i == CHOOSE j \in 1..NumMethods : methods[j].tag = tag IN methods[i].func

\* C4: on a cache miss for a domain whose pattern has a success_rate above 50
\* and a method_used that is one of the method tags, step 2 awaits the method
\* of that tag before step 3 awaits any method.
C4_LearnedMethodFirst ==
    \A c \in Calls :
        (/\ Done(c) /\ Missed(c)
         /\ hist[c].pat0 # None
         /\ Get(hist[c].pat0[1], "success_rate", 0) > 50
         /\ Get(hist[c].pat0[1], "method_used", "") \in Range(StatedOrder))
        => LET learned == FirstOf(c, "invoke_learned")
               first == FirstOf(c, "invoke")
           IN  /\ learned > 0
               /\ hist[c].trace[learned].name = FuncOfTag(hist[c].pat0[1].method_used)
               /\ first = 0 \/ learned < first

\* C5: on a cache miss for a domain whose pattern has a success_rate of 50 or
\* less (a missing success_rate counts as 0), step 2 tries no learned method:
\* after the pattern lookup the call goes straight to the first method of
\* step 3.
C5_LowRateSkipsLearned ==
    \A c \in Calls :
        (/\ Missed(c)
         /\ hist[c].pat0 # None
         /\ Get(hist[c].pat0[1], "success_rate", 0) <= 50)
        => /\ EventsOf(c, "try_learned") = <<>>
           /\ EventsOf(c, "invoke_learned") = <<>>
           /\ Len(hist[c].trace) >= 3 =>
                  /\ hist[c].trace[2].kind = "pattern_lookup"
                  /\ hist[c].trace[3].kind = "invoke"
                  /\ hist[c].trace[3].name = StatedOrder[1]

\* a call for a domain whose pattern records failures only
C5_Witness ==
    \E c \in Calls :
        /\ Done(c) /\ Missed(c)
        /\ hist[c].pat0 # None
        /\ "success_rate" \in DOMAIN hist[c].pat0[1]
        /\ hist[c].pat0[1].success_rate = 0
        /\ hist[c].pat0[1].successful_attempts = 0
        /\ EventsOf(c, "invoke") # <<>>

\* C6: the success_rate of every pattern document is its successful_attempts
\* divided by its total_attempts, times 100.
C6_RateIsRatio ==
    \A d \in DOMAIN patterns :
        "success_rate" \in DOMAIN patterns[d] =>
            patterns[d].success_rate * patterns[d].total_attempts
                = patterns[d].successful_attempts * 100

\* the record has the keys of a result, a URL exactly when it reports
\* success, and an error when it reports failure
ResultRecord(rec) ==
    /\ {"success", "url", "method", "from_cache"} \subseteq DOMAIN rec
    /\ rec.success \in BOOLEAN
    /\ rec.success <=> rec.url # None
    /\ ~rec.success => "error" \in DOMAIN rec

\* C7: whatever the cache, the pattern store, the extraction methods and the
\* AI collaborators do, a call ends by returning a result record, and when an
\* operation of the call raised, the record reports it in its error key.
C7_FailuresReported ==
    \A c \in Calls :
        Done(c) =>
            /\ hist[c].ret # None
            /\ ResultRecord(Ret(c))
            /\ hist[c].faulted => "error" \in DOMAIN Ret(c)

\* C8: when no call is running, total_attempts is the number of calls made.
C8_AttemptsCounted ==
    (\A c \in Calls : call[c].pc \in {"idle", "done"})
        => total_attempts = Cardinality({c \in Calls : Done(c)})

\* step 3 of the call awaited all ten methods and none returned a URL
AllTenFailed(c) ==
    LET inv == EventsOf(c, "invoke") IN
    /\ Len(inv) = NumMethods
    /\ \A j \in 1..Len(inv) : inv[j].got = None

\* C9: a call that missed the cache, whose ten methods all returned nothing,
\* with the AI service not configured, returns success false with the error
\* 'All bypass methods failed', and the pattern store then holds a document
\* for the domain: a failure-only one (successful_attempts 0, one attempt) when
\* there was none, the old one with one more attempt and no more successes
\* otherwise.
C9_ExhaustionRecorded ==
    \A c \in Calls :
        (Done(c) /\ Missed(c) /\ AllTenFailed(c) /\ ~ai_available)
        => /\ ~Ret(c).success
           /\ Ret(c).url = None
           /\ Ret(c).method = "none"
           /\ "error" \in DOMAIN Ret(c)
           /\ Ret(c).error = "All bypass methods failed"
           /\ hist[c].pat1 # None
           /\ IF hist[c].pat0 = None
              THEN /\ hist[c].pat1[1].successful_attempts = 0
                   /\ hist[c].pat1[1].total_attempts = 1
                   /\ hist[c].pat1[1].success_rate = 0
              ELSE /\ hist[c].pat1[1].total_attempts
                          = hist[c].pat0[1].total_attempts + 1
                   /\ hist[c].pat1[1].successful_attempts
                          = hist[c].pat0[1].successful_attempts

\* an exhausted call for a domain without a pattern document
C9_Witness ==
    \E c \in Calls :
        /\ Done(c) /\ Missed(c) /\ AllTenFailed(c) /\ ~ai_available
        /\ hist[c].pat0 = None
        /\ hist[c].pat1 # None

\* C10: a call that returns success without being served from the cache has
\* written the cache document of its URL with the URL it returns, and has
\* created the pattern document of its domain or increased its counters.
C10_SuccessWritesBoth ==
    \A c \in Calls :
        (Done(c) /\ Ret(c).success /\ ~Ret(c).from_cache)
        => /\ hist[c].cache1 # None
           /\ hist[c].cache1[1].original_url = Url(c)
           /\ Some(hist[c].cache1[1].bypassed_url) = Ret(c).url
           /\ hist[c].pat1 # None
           /\ hist[c].pat0 # None =>
                  hist[c].pat1[1].total_attempts > hist[c].pat0[1].total_attempts

\* the call's step 3 returned a URL: its result carries a method tag
Step3Success(c) ==
    /\ Done(c) /\ Missed(c)
    /\ Ret(c).success
    /\ Ret(c).method \in Range(StatedOrder)

\* C11: when step 3 succeeds for a URL whose domain had no pattern document
\* before the call, then on return the cache document of the URL holds the
\* URL returned, and the pattern store holds a document for the domain with
\* method_used the winning tag, total_attempts 1 and successful_attempts 1.
C11_FirstSuccessRecorded ==
    \A c \in Calls :
        (Step3Success(c) /\ hist[c].pat0 = None)
        => /\ hist[c].cache1 # None
           /\ hist[c].cache1[1].original_url = Url(c)
           /\ Some(hist[c].cache1[1].bypassed_url) = Ret(c).url
           /\ hist[c].pat1 # None
           /\ hist[c].pat1[1].domain = _extract_domain(Url(c))
           /\ hist[c].pat1[1].method_used = Ret(c).method
           /\ hist[c].pat1[1].total_attempts = 1
           /\ hist[c].pat1[1].successful_attempts = 1

\* a step-3 success by the third method on a domain without a document
C11_Witness ==
    \E c \in Calls :
        /\ Step3Success(c) /\ hist[c].pat0 = None
        /\ Ret(c).method = "javascript"

\* the learned method that step 2 of the call awaited returned a URL
LearnedReturned(c) ==
    LET inv == EventsOf(c, "invoke_learned") IN
    inv # <<>> /\ inv[1].got # None

\* C12: when the learned method of step 2 returns a URL, the call returns
\* success with the tag learned_<method_used> and that URL, the cache
\* document of the URL then holds it, and the pattern document's
\* successful_attempts and total_attempts have each grown by exactly 1.
C12_LearnedSuccessRecorded ==
    \A c \in Calls :
        (Done(c) /\ LearnedReturned(c))
        => /\ Ret(c).success
           /\ ~Ret(c).from_cache
           /\ Ret(c).method = "learned_" \o hist[c].pat0[1].method_used
           /\ Ret(c).url = EventsOf(c, "invoke_learned")[1].got
           /\ EventsOf(c, "invoke") = <<>>
           /\ hist[c].cache1 # None
           /\ hist[c].cache1[1].original_url = Url(c)
           /\ Some(hist[c].cache1[1].bypassed_url) = Ret(c).url
           /\ hist[c].pat1 # None
           /\ hist[c].pat1[1].successful_attempts
                  = hist[c].pat0[1].successful_attempts + 1
           /\ hist[c].pat1[1].total_attempts
                  = hist[c].pat0[1].total_attempts + 1

\* a call that returned what its learned method returned
C12_Witness ==
    \E c \in Calls :
        /\ Done(c) /\ LearnedReturned(c)
        /\ Ret(c).method = "learned_method_redirect"

\* step 2 of the call tried the learned pattern without getting a URL
LearnedFailed(c) ==
    /\ EventsOf(c, "try_learned") # <<>>
    /\ ~LearnedReturned(c)

\* C13: when the learned attempt of step 2 fails (the stored name resolves to
\* no method, or the method returns nothing), the same call goes on to step
\* 3, which awaits the methods in the stated order from the first one, and
\* the pattern document's successful_attempts is not increased.
C13_LearnedFailureFallsThrough ==
    \A c \in Calls :
        (Done(c) /\ LearnedFailed(c))
        => LET inv == EventsOf(c, "invoke") IN
           /\ inv # <<>>
           /\ FirstOf(c, "try_learned") < FirstOf(c, "invoke")
           /\ Len(inv) <= Len(StatedOrder)
           /\ \A j \in 1..Len(inv) : inv[j].name = StatedOrder[j]
           /\ \A j \in 1..(Len(inv) - 1) : inv[j].got = None
           /\ Ret(c).success \/ Len(inv) = Len(StatedOrder)
           /\ hist[c].pat1 # None
           /\ hist[c].pat1[1].successful_attempts
                  = hist[c].pat0[1].successful_attempts

\* a call whose learned method was awaited and returned nothing, and whose
\* step 3 then went through all ten methods
C13_Witness ==
    \E c \in Calls :
        /\ Done(c) /\ LearnedFailed(c)
        /\ EventsOf(c, "invoke_learned") # <<>>
        /\ Len(EventsOf(c, "invoke")) = Len(StatedOrder)

\* operation c was the one of that name
Was(c, name) == hist[c].trace # <<>> /\ hist[c].trace[1].kind = name

\* C14: learn_from_success on a domain whose document has successful_attempts
\* s and total_attempts t leaves it with s + 1 and t + 1, and with the
\* method_used and the protection_type of the new winner.
C14_SuccessAddsToCounters ==
    \A c \in Calls :
        (Was(c, "learn_from_success") /\ hist[c].pat0 # None)
        => /\ hist[c].pat1 # None
           /\ hist[c].pat1[1].successful_attempts
                  = hist[c].pat0[1].successful_attempts + 1
           /\ hist[c].pat1[1].total_attempts
                  = hist[c].pat0[1].total_attempts + 1
           /\ hist[c].pat1[1].method_used = hist[c].trace[1].name
           /\ hist[c].pat1[1].protection_type
                  = hist[c].trace[1].got[1].protection_type

\* C15: learn_from_failure on a domain with a document adds exactly 1 to
\* total_attempts, leaves successful_attempts and method_used as they were
\* and makes failed_methods hold the old methods and the attempted ones; on a
\* domain without a document it creates one with total_attempts 1,
\* successful_attempts 0 and needs_ai_analysis true.
C15_FailureRecorded ==
    \A c \in Calls :
        Was(c, "learn_from_failure") =>
            /\ hist[c].pat1 # None
            /\ LET new == hist[c].pat1[1]
                   attempted == call[c].failed_methods
               IN  IF hist[c].pat0 # None
                   THEN LET old == hist[c].pat0[1] IN
                        /\ new.total_attempts = old.total_attempts + 1
                        /\ new.successful_attempts = old.successful_attempts
                        /\ ("method_used" \in DOMAIN new) = ("method_used" \in DOMAIN old)
                        /\ Get(new, "method_used", "") = Get(old, "method_used", "")
                        /\ Range(new.failed_methods)
                               = Range(Get(old, "failed_methods", <<>>)) \cup Range(attempted)
                        /\ Len(new.failed_methods) = Cardinality(Range(new.failed_methods))
                   ELSE /\ new.total_attempts = 1
                        /\ new.successful_attempts = 0
                        /\ new.needs_ai_analysis
                        /\ new.failed_methods = attempted

\* a second failure on a domain, with one method already recorded and one new
C15_Witness ==
    \E c \in Calls :
        /\ Was(c, "learn_from_failure")
        /\ hist[c].pat0 # None
        /\ Get(hist[c].pat0[1], "failed_methods", <<>>) = <<"html_form", "css_hidden">>
        /\ call[c].failed_methods = <<"css_hidden", "javascript">>

\* C16: when the cache, the ten methods and the AI have all yielded nothing,
\* the record that bypass returns has success false and carries, as
\* failed_methods, the tags of the methods that were attempted.
C16_ExhaustionListsMethods ==
    \A c \in Calls :
        (Done(c) /\ Missed(c) /\ AllTenFailed(c))
        => /\ ~Ret(c).success
           /\ "failed_methods" \in DOMAIN Ret(c)
           /\ Get(Ret(c), "failed_methods", <<>>) = call[c].failed_methods
           /\ call[c].failed_methods = StatedOrder

\* C17: a record that bypass returns has an error key exactly when its
\* success is false.
C17_ErrorIffFailure ==
    \A c \in Calls :
        Done(c) => (("error" \in DOMAIN Ret(c)) <=> ~Ret(c).success)

\* the step 4 that the call went through, if any
AIEvent(c) == EventsOf(c, "ai")

\* the error that step 4 reports when the page fetch fails, when no AI client
\* is configured, and when the AI call raises (with a text, or with none)
StepFourError(env) ==
    IF env = "fetch_failed" THEN "Failed to fetch page content"
    ELSE IF ~ai_available THEN "AI service not available"
    ELSE IF env = "analysis_raises" THEN "AI call failed"
    ELSE "Unknown error"

\* C18: when no AI client is configured, or the page fetch or the AI call of
\* step 4 fails, the call goes on to step 5: it stores the failure in the
\* pattern document of the domain (one more attempt, the error of step 4 as
\* last_error) and returns success false with method 'none', not the
\* internal-exception result.
C18_AIFailureDegrades ==
    \A c \in Calls :
        (/\ Done(c) /\ AIEvent(c) # <<>>
         /\ \/ ~ai_available
            \/ AIEvent(c)[1].name \in
                   {"fetch_failed", "analysis_raises", "analysis_raises_empty"})
        => /\ ~Ret(c).success
           /\ Ret(c).method = "none"
           /\ Ret(c).method # "error"
           /\ Ret(c) = AllFailed
           /\ hist[c].trace[Len(hist[c].trace)] = Event("record_failure", "stored")
           /\ hist[c].pat1 # None
           /\ hist[c].pat1[1].last_error = StepFourError(AIEvent(c)[1].name)
           /\ hist[c].pat1[1].total_attempts
                  = IF hist[c].pat0 = None THEN 1
                    ELSE hist[c].pat0[1].total_attempts + 1

\* an exhausted call with no AI client configured whose page was fetched
C18_Witness ==
    \E c \in Calls :
        /\ Done(c) /\ AIEvent(c) # <<>>
        /\ ~ai_available
        /\ AIEvent(c)[1].name = "no_code"
        /\ hist[c].pat1 # None

\* C19: code that the AI generated is never executed: no call returns
\* success after step 4 or with method 'ai_generated', the AI path counts no
\* bypass as AI-assisted, and no pattern document is learned from it.
C19_GeneratedCodeNotRun ==
    /\ \A c \in Calls :
           Done(c) =>
               /\ Ret(c).method # "ai_generated"
               /\ AIEvent(c) # <<>> =>
                      /\ ~Ret(c).success
                      /\ EventsOf(c, "learn_success") = <<>>
                      /\ EventsOf(c, "cache_write") = <<>>
    /\ \A d \in DOMAIN patterns :
           Get(patterns[d], "method_used", "") # "ai_generated"
    /\ ai_assisted_bypasses
           = Cardinality({c \in Calls : Done(c) /\ LearnedReturned(c)})

\* a call for which the AI generated code
C19_Witness ==
    \E c \in Calls :
        /\ Done(c) /\ AIEvent(c) # <<>>
        /\ ai_available
        /\ AIEvent(c)[1].name = "code"
        /\ successful_generations > 0

\* C20: a call served from the cache awaits no method, makes no AI call and
\* leaves the pattern store and its in-memory copy alone. Its steps change
\* only total_attempts (+1), the hit_count of the cache document (+1) and
\* cache_hits (+1); the cached URL, which it returns, successful_bypasses and
\* ai_assisted_bypasses stay as they were.
C20_CacheHitFrame ==
    [][\A c \in Calls :
          LET doc_id == CacheDocId(hash_seed, Url(c)) IN
          /\ (call[c].pc = "count" /\ call'[c].pc = "check_cache") =>
                 /\ total_attempts' = total_attempts + 1
                 /\ UNCHANGED <<successful_bypasses, ai_assisted_bypasses, cache_hits,
                                agent, learned_patterns, patterns, bypass_cache>>
          /\ (call[c].pc = "check_cache" /\ call'[c].pc = "cache_hit") =>
                 /\ doc_id \in DOMAIN bypass_cache
                 /\ bypass_cache' =
                        [bypass_cache EXCEPT ![doc_id].hit_count = @ + 1]
                 /\ UNCHANGED <<counters, agent, learned_patterns, patterns>>
          /\ (call[c].pc = "cache_hit" /\ call'[c].pc = "done") =>
                 /\ cache_hits' = cache_hits + 1
                 /\ UNCHANGED <<total_attempts, successful_bypasses,
                                ai_assisted_bypasses, agent, learned_patterns,
                                patterns, bypass_cache>>
                 /\ hist'[c].trace = <<Event("cache_lookup", "hit")>>
                 /\ hist'[c].ret[1].from_cache
                 /\ hist'[c].ret[1].url = Some(bypass_cache[doc_id].bypassed_url)
      ]_vars

\* a call served from the cache, after which the document counts two hits
C20_Witness ==
    \E c \in Calls :
        /\ Done(c) /\ Ret(c).from_cache
        /\ hist[c].cache1 # None
        /\ hist[c].cache1[1].hit_count = 2
        /\ cache_hits = 1

\* neither call had returned when the other was made
Overlapped(a, b) == a # b /\ a \notin hist[b].before /\ b \notin hist[a].before

\* the cache documents that are held for a URL
EntriesFor(url) ==
    {id \in DOMAIN bypass_cache : bypass_cache[id].original_url = url}

\* the call writes the cache document of its URL in this step
WritesCache(c) ==
    Len(EventsOf(c, "cache_write"))' = Len(EventsOf(c, "cache_write")) + 1

\* C21: two calls for one URL that run at the same time and both miss the
\* cache both go through the pattern lookup and the methods; each succeeds
\* exactly when its own site yields a link; once both have returned the
\* cache holds one document for the URL when either succeeded. Every cache
\* write leaves the document with the URL that the writing call returns, and
\* nothing else changes a cached URL, so the document holds what the later
\* write wrote.
C21_DuplicateCallsTolerated ==
    /\ [](\A a \in Calls, b \in Calls :
            (/\ Done(a) /\ Done(b) /\ Overlapped(a, b)
             /\ Url(a) = Url(b) /\ Missed(a) /\ Missed(b))
            => /\ \A c \in {a, b} :
                      /\ EventsOf(c, "pattern_lookup") # <<>>
                      /\ EventsOf(c, "invoke") # <<>> \/ EventsOf(c, "invoke_learned") # <<>>
                      /\ Ret(c).success <=> call[c].site # "down"
                      /\ ~Ret(c).from_cache
               /\ Cardinality(EntriesFor(Url(a)))
                      = IF Ret(a).success \/ Ret(b).success THEN 1 ELSE 0)
    /\ [][/\ \A c \in Calls :
                WritesCache(c) =>
                    LET doc_id == CacheDocId(hash_seed, Url(c)) IN
                    /\ doc_id \in DOMAIN bypass_cache'
                    /\ bypass_cache'[doc_id].original_url = Url(c)
                    /\ Some(bypass_cache'[doc_id].bypassed_url) = hist'[c].ret[1].url
          /\ \A id \in DOMAIN bypass_cache :
                (id \in DOMAIN bypass_cache'
                 /\ bypass_cache'[id].bypassed_url # bypass_cache[id].bypassed_url)
                => \E c \in Calls : WritesCache(c) /\ id = CacheDocId(hash_seed, Url(c))
       ]_vars

\* two overlapping calls for one URL that both missed the cache and returned
\* different destinations, the cache holding one of them
C21_Witness ==
    \E a \in Calls, b \in Calls :
        /\ Done(a) /\ Done(b) /\ Overlapped(a, b)
        /\ Url(a) = Url(b) /\ Missed(a) /\ Missed(b)
        /\ Ret(a).success /\ Ret(b).success
        /\ Ret(a).url # Ret(b).url
        /\ Cardinality(EntriesFor(Url(a))) = 1
        /\ Some(hist[b].cache1[1].bypassed_url) = Ret(b).url
        /\ hist[a].cache1[1].bypassed_url # hist[b].cache1[1].bypassed_url

\* no call has been made after call c
LastMade(c) == \A b \in Calls : b > c => call[b].pc = "idle"

\* C22: a call that was cancelled where it was suspended writes no cache
\* document and changes nothing in the pattern document of its domain.
C22_CancelledCallWritesNothing ==
    \A c \in Calls :
        hist[c].cancelled =>
            /\ EventsOf(c, "cache_write") = <<>>
            /\ EventsOf(c, "learn_success") = <<>>
            /\ EventsOf(c, "record_failure") = <<>>
            /\ LastMade(c) =>
                   Lookup(patterns, _extract_domain(Url(c))) = hist[c].pat0

\* the string is an http or https URL with a host
WellFormedHttp(url) ==
    /\ (IF "scheme" \in DOMAIN url THEN url.scheme ELSE "http") \in {"http", "https"}
    /\ url.netloc # <<"">>

\* C23: a request whose URL is not a well-formed http(s) URL is rejected by
\* its entry point: no bypass call is made for it, so there is no cache
\* lookup, no pattern lookup and no fetch.
C23_MalformedRejected ==
    \A c \in Calls :
        (call[c].url # None /\ ~WellFormedHttp(Url(c)))
        => /\ EventsOf(c, "cache_lookup") = <<>>
           /\ EventsOf(c, "pattern_lookup") = <<>>
           /\ EventsOf(c, "invoke") = <<>>
           /\ EventsOf(c, "ai") = <<>>

\* C24: method_redirect returns the URL it is at as soon as that URL
\* answers with something other than a redirect, and returns None when its
\* ten requests were all answered by redirects.
C24_RedirectBudget ==
    \A c \in Calls :
        Was(c, "method_redirect") =>
            LET web == hist[c].trace[1].name
                ret == hist[c].trace[1].got
            IN  /\ (web.end = "page" /\ web.len < max_redirects) => ret = Some(web.len)
                /\ (web.len >= max_redirects) => ret = None

\* C25: a URL that method_css_hidden, method_javascript, method_cloudflare,
\* method_base64 or method_url_decode returns starts with http, has no
\* denylisted domain in its host and contains a download indicator.
C25_ReturnedLinksPlausible ==
    \A c \in Calls :
        (hist[c].trace # <<>> /\ hist[c].trace[1].kind \in FilteringMethods) =>
            LET ret == hist[c].trace[1].got IN
            ret # None =>
                /\ ret[1].absolute
                /\ \A i \in 1..(Len(ret[1].netloc) - 1) :
                       SubSeq(ret[1].netloc, i, i + 1) \notin
                           {<<"facebook", "com">>, <<"twitter", "com">>,
                            <<"google", "com">>, <<"youtube", "com">>}
                /\ ret[1].token # ""

\* a method of step 3 raises in this step of call c
Raises(c) == Len(EventsOf(c, "raised"))' = Len(EventsOf(c, "raised")) + 1

\* the locals of a call after an iteration of step 3 whose method returned
\* nothing
AfterNoResult(locals) ==
    LET failed == Append(locals.failed_methods, StatedOrder[locals.k]) IN
    IF locals.k < Len(StatedOrder)
    THEN [locals EXCEPT !.k = @ + 1, !.failed_methods = failed]
    ELSE [locals EXCEPT !.pc = "ai", !.failed_methods = failed,
                        !.result = Some([success |-> FALSE, url |-> None,
                                         method |-> "all_traditional_failed",
                                         from_cache |-> FALSE,
                                         failed_methods |-> failed])]

\* C26: in step 3 a method that raises is treated as one that returned
\* nothing: the step leaves the call as the no-result iteration leaves it
\* (its tag appended to the failed methods, the next method in order up
\* next) and changes nothing else, and the methods awaited stay in the stated
\* order.
C26_RaiseIsNoResult ==
    /\ [][\A c \in Calls :
             Raises(c) =>
                 /\ call'[c] = AfterNoResult(call[c])
                 /\ UNCHANGED <<counters, agent, learned_patterns, bypass_cache,
                                patterns>>
         ]_vars
    /\ [](\A c \in Calls :
             LET inv == EventsOf(c, "invoke") IN
             /\ \A j \in 1..Len(inv) : inv[j].name = StatedOrder[j]
             /\ \A r \in Range(EventsOf(c, "raised")) :
                    r.name \in Range(call[c].failed_methods))

\* a call in which the first method raised and the seventh returned a URL
C26_Witness ==
    \E c \in Calls :
        /\ Done(c)
        /\ EventsOf(c, "raised") = <<Event("raised", "html_form")>>
        /\ Ret(c).success /\ Ret(c).method = "redirect_chain"
        /\ Len(EventsOf(c, "invoke")) = 7

\* C27: every call that has been made returns a result in the end, whatever
\* fails on its way: the cache, the pattern store, the fetches of the
\* methods or the AI call.
C27_CallsReturn ==
    \A c \in Calls : (call[c].pc # "idle") ~> (Done(c) /\ hist[c].ret # None)

\* a call that returned after its ten methods had failed, the pattern read
\* had raised and the recording of the failure had raised
C27_Witness ==
    \E c \in Calls :
        /\ Done(c) /\ hist[c].ret # None
        /\ hist[c].faulted
        /\ Len(EventsOf(c, "invoke")) = Len(StatedOrder)
        /\ EventsOf(c, "ai") # <<>>
        /\ EventsOf(c, "record_failure") = <<Event("record_failure", "raised")>>

\* C28: in every pattern document the success_rate lies between 0 and 100
\* and successful_attempts does not exceed total_attempts.
C28_RateAndCountsBounded ==
    \A d \in DOMAIN patterns :
        /\ "success_rate" \in DOMAIN patterns[d] =>
               /\ patterns[d].success_rate >= 0
               /\ patterns[d].success_rate <= 100
        /\ patterns[d].successful_attempts <= patterns[d].total_attempts

\* a document that a learned success and then a failure have counted on
C28_Witness ==
    \E d \in DOMAIN patterns, c \in Calls :
        /\ Done(c) /\ LearnedReturned(c)
        /\ _extract_domain(Url(c)) = d
        /\ patterns[d].successful_attempts = hist[c].pat0[1].successful_attempts + 1
        /\ patterns[d].total_attempts = hist[c].pat0[1].total_attempts + 2
        /\ "last_error" \in DOMAIN patterns[d]

\* C29: no step makes total_attempts, successful_bypasses,
\* ai_assisted_bypasses or cache_hits smaller.
C29_CountersNeverDecrease ==
    [][/\ total_attempts' >= total_attempts
       /\ successful_bypasses' >= successful_bypasses
       /\ ai_assisted_bypasses' >= ai_assisted_bypasses
       /\ cache_hits' >= cache_hits]_vars

\* C30: the cache document written for a URL is the one that a lookup of
\* the URL reads, in whatever process the lookup is made: every document of
\* the cache is stored under the key that the running process computes for
\* its original_url.
C30_CacheKeyStable ==
    \A id \in DOMAIN bypass_cache :
        LET key == CacheDocId(hash_seed, bypass_cache[id].original_url) IN
        /\ key \in DOMAIN bypass_cache
        /\ bypass_cache[key].original_url = bypass_cache[id].original_url

\* C31: when no call is running, every pattern that learned_patterns holds
\* in memory agrees with the pattern document of its domain on
\* total_attempts, successful_attempts and method_used, so that
\* get_learned_pattern returns the values that the store holds.
C31_MemoryAgreesWithStore ==
    Quiet =>
        \A d \in DOMAIN learned_patterns :
            /\ d \in DOMAIN patterns
            /\ \A f \in {"total_attempts", "successful_attempts", "method_used"} :
                   Get(learned_patterns[d], f, None) = Get(patterns[d], f, None)

\* the URLs that the method requested, in order
Requested(c) ==
    LET req == EventsOf(c, "request") IN [n \in DOMAIN req |-> req[n].got[1]]

\* C32: method_redirect returns on every chain of redirects, also on one
\* that leads back to a URL already requested, and has then made at most 10
\* requests, each to the Location that the request before it was answered
\* with.
C32_RedirectTerminates ==
    \A c \in Calls :
        Was(c, "method_redirect") =>
            LET web == hist[c].trace[1].name
                req == Requested(c)
            IN  /\ Done(c)
                /\ Len(req) >= 1 /\ Len(req) <= 10
                /\ req[1] = 0
                /\ \A n \in 2..Len(req) :
                       Response(web, req[n - 1]).location = Some(req[n])

\* a call on a URL that redirects to itself, and one on a chain that leads
\* back to its first URL: ten requests, some URL requested more than once
C32_Witness ==
    \E c \in Calls :
        /\ Was(c, "method_redirect") /\ Done(c)
        /\ hist[c].trace[1].name.end = "back"
        /\ hist[c].trace[1].name.len \in {0, 3}
        /\ Len(Requested(c)) = 10
        /\ \E m \in 1..10, n \in 1..10 : m < n /\ Requested(c)[m] = Requested(c)[n]
        /\ hist[c].trace[1].got = (IF hist[c].trace[1].name.len = 0 THEN None ELSE Some(2))

\* C33: a call that misses the cache for a domain whose pattern document has
\* successful_attempts / total_attempts * 100 <= 50 tries no learned method
\* in step 2: _try_learned_method is not entered and no method is awaited
\* there.
C33_GateFollowsCounters ==
    \A c \in Threads :
        (/\ Missed(c)
         /\ EventsOf(c, "pattern_lookup") # <<>>
         /\ hist[c].pat0 # None
         /\ hist[c].pat0[1].successful_attempts * 100
                <= 50 * hist[c].pat0[1].total_attempts)
        => /\ EventsOf(c, "try_learned") = <<>>
           /\ EventsOf(c, "invoke_learned") = <<>>

\* C34: a call that returns success without being served from the cache
\* returns a URL other than the one it was given.
C34_ResolvedUrlDiffers ==
    \A c \in Calls :
        (Done(c) /\ Ret(c).success /\ ~Ret(c).from_cache)
        => Ret(c).url # Some(Url(c))

\* C35: no step of calls that run at the same time for one domain makes
\* the total_attempts of its pattern document smaller, removes the document
\* or removes a method from its failed_methods.
C35_PatternRecordGrows ==
    [][\A d \in DOMAIN patterns :
          /\ d \in DOMAIN patterns'
          /\ patterns'[d].total_attempts >= patterns[d].total_attempts
          /\ Range(Get(patterns[d], "failed_methods", <<>>))
                 \subseteq Range(Get(patterns'[d], "failed_methods", <<>>))
      ]_vars

\* C36: in every state, also while calls are running, cache_hits plus
\* successful_bypasses is at most total_attempts and ai_assisted_bypasses is
\* at most successful_bypasses, and the success_rate and the ai_usage_rate of
\* get_statistics lie between 0 and 100 percent and are 0 while
\* total_attempts is 0.
C36_StatisticsConsistent ==
    /\ cache_hits + successful_bypasses <= total_attempts
    /\ ai_assisted_bypasses <= successful_bypasses
    /\ get_statistics.success_rate \in 0..10000
    /\ get_statistics.ai_usage_rate \in 0..10000
    /\ total_attempts = 0 =>
           get_statistics.success_rate = 0 /\ get_statistics.ai_usage_rate = 0

\* C37: the daily_bypass_count of a free user, which counts the successful
\* bypasses of the user since the last reset, never exceeds
\* FREE_USER_DAILY_LIMIT.
C37_DailyLimitHolds ==
    \A u \in DOMAIN users :
        ~users[u].is_premium => users[u].daily_bypass_count <= FREE_USER_DAILY_LIMIT

\* the redemptions of a token that returned success
Granted(token) ==
    {c \in Threads : /\ call[c].pc = "done" /\ "token" \in DOMAIN call[c]
                     /\ call[c].token = token /\ hist[c].ret[1].success}

====
